---- MODULE Spec2Model ----
(***************************************************************************)
(* A model of the plan-generation engine of hikesim,                       *)
(* src/backend/app/services/plan.py.                                       *)
(*                                                                         *)
(* The engine is a set of pure functions over numbers, dates and lists.    *)
(* Every function is an operator that computes what the code computes;     *)
(* every specification draws a function's arguments from small sets in its *)
(* initial states and applies the function in its actions.                 *)
(*                                                                         *)
(* Numbers.  Python floats are modelled as exact rationals <<n, d>> with   *)
(* d > 0 in lowest terms (an int k is <<k, 1>>).  round() is Python 3's    *)
(* round-half-to-even; round(x * c) for a decimal constant c rounds the    *)
(* double that x * c is, which at a half-integer can lie beside it.        *)
(* Dates are day ordinals; ordinal 0 is a Monday, so date.weekday() is     *)
(* ordinal % 7.                                                            *)
(***************************************************************************)
EXTENDS Integers, Sequences, FiniteSets, TLC

VARIABLES
    pc,         \* which function is being applied, and how far it is
    req,        \* _enforce_session_invariant: the requested counts
    sessions,   \* _enforce_session_invariant: the returned counts
    vol_in,     \* _build_weekly_volumes: the arguments
    volumes,    \* _build_weekly_volumes: the returned list
    inputs,     \* build_training_plan: what _build_inputs made of payload and hike
    plan,       \* _build_plan: the locals set before the loop over the weeks
    week_index, \* _build_plan: the loop variable index
    warnings,   \* _build_plan: the warnings list
    weeks,      \* _build_plan: the weeks list
    last_long_hike_minutes,     \* _build_plan: the running long-hike minutes
    returned,   \* build_training_plan: the returned plan, or the exception raised
    calls,      \* how many times build_training_plan was called with these inputs
    prior,      \* what the call before this one returned or raised
    slot_list,  \* _build_week_workouts: the slots list
    to_place,   \* _place_workouts: the workouts its loop has still to place
    avoided,    \* _place_workouts: the types should_avoid accepts
    queued      \* _build_week_workouts: the calls of _place_workouts still to come

sessionVars == <<req, sessions>>
volumeVars == <<vol_in, volumes>>
planVars ==
    <<inputs, plan, week_index, warnings, weeks, last_long_hike_minutes, returned, calls,
      prior>>
placeVars == <<slot_list, to_place, avoided, queued>>
vars == <<pc, sessionVars, volumeVars, planVars, placeVars>>

None == "None"

\* the variables of a function that a specification does not call
NoSessionCall == req = None /\ sessions = None
NoVolumeCall == vol_in = None /\ volumes = None
NoPlanCall ==
    /\ inputs = None /\ plan = None /\ week_index = None /\ warnings = None
    /\ weeks = None /\ last_long_hike_minutes = None /\ returned = None
    /\ calls = None /\ prior = None
NoPlaceCall == slot_list = None /\ to_place = None /\ avoided = None /\ queued = None

------------------------------------------------------------------------------
(* Python numbers *)

Abs(n) == IF n < 0 THEN -n ELSE n

RECURSIVE Gcd(_, _)
Gcd(a, b) == IF b = 0 THEN a ELSE Gcd(b, a % b)

\* the float n / d
Q(n, d) ==
    LET Over(g) == IF d < 0 THEN <<(-n) \div g, (-d) \div g>> ELSE <<n \div g, d \div g>>
    IN  Over(Gcd(Abs(n), Abs(d)))

R(k) == <<k, 1>>

Num(x) == x[1]
Den(x) == x[2]

RAdd(x, y) == Q(x[1] * y[2] + y[1] * x[2], x[2] * y[2])
RSub(x, y) == Q(x[1] * y[2] - y[1] * x[2], x[2] * y[2])
RMul(x, y) == Q(x[1] * y[1], x[2] * y[2])
RDiv(x, y) == Q(x[1] * y[2], x[2] * y[1])
RLe(x, y) == x[1] * y[2] <= y[1] * x[2]
RLt(x, y) == x[1] * y[2] < y[1] * x[2]
RGe(x, y) == RLe(y, x)
RGt(x, y) == RLt(y, x)
RMax(x, y) == IF RLt(x, y) THEN y ELSE x
RMin(x, y) == IF RLt(y, x) THEN y ELSE x
RAbs(x) == <<Abs(x[1]), x[2]>>
IsInt(x) == x[2] = 1

IMax(a, b) == IF a < b THEN b ELSE a
IMin(a, b) == IF b < a THEN b ELSE a

\* round(x) with no digits: the nearest int, ties to the even one
Round(x) ==
    LET Nearest(f, r) ==
            IF 2 * r < x[2] THEN f
            ELSE IF 2 * r > x[2] THEN f + 1
            ELSE IF f % 2 = 0 THEN f ELSE f + 1
    IN  Nearest(x[1] \div x[2], x[1] % x[2])

\* round(x, 1)
Round1(x) == Q(Round(RMul(x, R(10))), 10)

------------------------------------------------------------------------------
(* Bounds of the model *)

\* (double(c) - c) * 2^53 for the decimal constants c that the code multiplies by:
\* how far the binary double of the constant is from the constant itself
DoubleError(c) ==
    CASE c = <<11, 10>> -> <<4, 5>>        \* 1.1
      [] c = <<21, 20>> -> <<2, 5>>        \* 1.05
      [] c = <<11, 20>> -> <<2, 5>>        \* 0.55
      [] c = <<39, 50>> -> <<6, 25>>       \* 0.78
      [] c = <<17, 20>> -> <<-1, 5>>       \* 0.85
      [] c = <<2, 5>> -> <<1, 5>>          \* 0.4
      [] c = <<9, 10>> -> <<1, 5>>         \* 0.9
      [] c = <<7, 20>> -> <<-1, 5>>        \* 0.35
      [] c = <<3, 20>> -> <<-1, 20>>       \* 0.15
      [] c = <<1, 10>> -> <<1, 20>>        \* 0.1
      [] c = <<7, 10>> -> <<-2, 5>>        \* 0.7
      [] c = <<9, 5>> -> <<2, 5>>          \* 1.8
      [] c = <<3, 10>> -> <<-1, 10>>       \* 0.3
      [] OTHER -> <<0, 1>>                 \* 0.25, 1.5 and 1 are doubles

\* the largest power of two that is at most x, for x > 0
RECURSIVE Pow2Le(_, _)
Pow2Le(x, p) ==
    IF RGt(p, x) THEN Pow2Le(x, RDiv(p, R(2)))
    ELSE IF RLe(RMul(p, R(2)), x) THEN Pow2Le(x, RMul(p, R(2)))
    ELSE p

\* x * c in doubles, for a double x, against the exact product when that is a
\* half-integer: 1 when the double is above it, -1 when below, 0 when it is the
\* half-integer itself.  The product of x and the double of c is off by
\* x * DoubleError(c) / 2^53, and rounds away from the half-integer when that is
\* more than half a unit in the last place.
TieMoves(x, c) ==
    LET Moves(exact, err) ==
            IF Den(exact) = 2 /\ Num(exact) > 0
               /\ RGt(RMul(RAbs(x), RAbs(err)), Pow2Le(exact, R(1)))
            THEN IF Num(err) > 0 THEN 1 ELSE -1
            ELSE 0
    IN  Moves(RMul(x, c), DoubleError(c))

\* round(x * c) of Python for a double x and a decimal constant c
RoundProduct(x, c) ==
    LET Rounded(exact, moves) ==
            IF moves = 1 THEN Num(exact) \div 2 + 1
            ELSE IF moves = -1 THEN Num(exact) \div 2
            ELSE Round(exact)
    IN  Rounded(RMul(x, c), TieMoves(x, c))

MaxDaysPerWeek == 4
MaxSessions == 3
MaxWeeks == 9
MaxCalls == 2

------------------------------------------------------------------------------
(* plan.py: small helpers *)

_round_to_step(value, step) == RMul(R(Round(RDiv(value, step))), step)

_clamp(value, min_value, max_value) == RMin(RMax(value, min_value), max_value)

------------------------------------------------------------------------------
(* Session Reconciler *)

\* _enforce_session_invariant with the strength reduction left out
_enforce_session_invariant_no_strength_cut(days_per_week, treadmill_sessions_per_week, outdoor_hikes_per_week, strength_sessions_per_week, strength_on_cardio_days) ==
    LET treadmill == IMax(treadmill_sessions_per_week, 0)
        outdoor == IMax(outdoor_hikes_per_week, 0)
        strength_addons == IMax(strength_sessions_per_week, 0)
        max_sessions == IMax(days_per_week, 0)
        total == treadmill + outdoor
        overage == total - max_sessions
        red_o == IF outdoor > 0 /\ overage > 0 THEN IMin(outdoor, overage) ELSE 0
        overage2 == overage - red_o
    IN  IF total <= max_sessions
        THEN [treadmill_sessions_per_week |-> treadmill,
              outdoor_hikes_per_week |-> outdoor,
              strength_sessions_per_week |-> strength_addons]
        ELSE [treadmill_sessions_per_week |->
                  IF overage2 > 0 THEN IMax(treadmill - overage2, 0) ELSE treadmill,
              outdoor_hikes_per_week |-> outdoor - red_o,
              strength_sessions_per_week |-> strength_addons]

\* _enforce_session_invariant reducing treadmill before outdoor
_enforce_session_invariant_treadmill_first(days_per_week, treadmill_sessions_per_week, outdoor_hikes_per_week, strength_sessions_per_week, strength_on_cardio_days) ==
    LET treadmill == IMax(treadmill_sessions_per_week, 0)
        outdoor == IMax(outdoor_hikes_per_week, 0)
        strength_addons == IMax(strength_sessions_per_week, 0)
        strength == IF strength_on_cardio_days THEN 0 ELSE strength_addons
        max_sessions == IMax(days_per_week, 0)
        total == treadmill + outdoor + strength
        overage == total - max_sessions
        red_s == IF strength > 0 THEN IMin(strength, overage) ELSE 0
        overage1 == overage - red_s
        red_t == IF treadmill > 0 /\ overage1 > 0 THEN IMin(treadmill, overage1) ELSE 0
        overage2 == overage1 - red_t
    IN  IF total <= max_sessions
        THEN [treadmill_sessions_per_week |-> treadmill,
              outdoor_hikes_per_week |-> outdoor,
              strength_sessions_per_week |-> strength_addons]
        ELSE [treadmill_sessions_per_week |-> treadmill - red_t,
              outdoor_hikes_per_week |->
                  IF overage2 > 0 THEN IMax(outdoor - overage2, 0) ELSE outdoor,
              strength_sessions_per_week |->
                  IF strength_on_cardio_days THEN strength_addons ELSE strength - red_s]

_enforce_session_invariant(days_per_week, treadmill_sessions_per_week, outdoor_hikes_per_week, strength_sessions_per_week, strength_on_cardio_days) ==
    LET treadmill == IMax(treadmill_sessions_per_week, 0)
        outdoor == IMax(outdoor_hikes_per_week, 0)
        strength_addons == IMax(strength_sessions_per_week, 0)
        strength == IF strength_on_cardio_days THEN 0 ELSE strength_addons
        max_sessions == IMax(days_per_week, 0)
        total == treadmill + outdoor + strength
        overage == total - max_sessions
        \* if strength > 0: reduction = min(strength, overage)
        red_s == IF strength > 0 THEN IMin(strength, overage) ELSE 0
        overage1 == overage - red_s
        \* if outdoor > 0 and overage > 0: reduction = min(outdoor, overage)
        red_o == IF outdoor > 0 /\ overage1 > 0 THEN IMin(outdoor, overage1) ELSE 0
        overage2 == overage1 - red_o
    IN  IF total <= max_sessions
        THEN [treadmill_sessions_per_week |-> treadmill,
              outdoor_hikes_per_week |-> outdoor,
              strength_sessions_per_week |-> strength_addons]
        ELSE [treadmill_sessions_per_week |->
                  IF overage2 > 0 THEN IMax(treadmill - overage2, 0) ELSE treadmill,
              outdoor_hikes_per_week |-> outdoor - red_o,
              strength_sessions_per_week |->
                  IF strength_on_cardio_days THEN strength_addons ELSE strength - red_s]

\* the arguments of one call of the reconciler
SessionRequests ==
    [days_per_week : 0..MaxDaysPerWeek,
     treadmill_sessions_per_week : 0..MaxSessions,
     outdoor_hikes_per_week : 0..MaxSessions,
     strength_sessions_per_week : 0..MaxSessions,
     strength_on_cardio_days : BOOLEAN]

InitSessions ==
    /\ pc = "sessions"
    /\ req \in SessionRequests
    /\ sessions = None
    /\ NoVolumeCall
    /\ NoPlanCall
    /\ NoPlaceCall

EnforceSessionInvariant ==
    /\ pc = "sessions"
    /\ sessions' = _enforce_session_invariant(req.days_per_week,
                      req.treadmill_sessions_per_week, req.outdoor_hikes_per_week,
                      req.strength_sessions_per_week, req.strength_on_cardio_days)
    /\ pc' = "sessions_done"
    /\ UNCHANGED <<req, volumeVars, planVars, placeVars>>

NextSessions == EnforceSessionInvariant

SpecSessions == InitSessions /\ [][NextSessions]_vars

\* the strength count that takes a day of its own
EffectiveStrength(s, on_cardio) == IF on_cardio THEN 0 ELSE s

RequestedTotal ==
    req.treadmill_sessions_per_week + req.outdoor_hikes_per_week
    + EffectiveStrength(req.strength_sessions_per_week, req.strength_on_cardio_days)

\* C2: the reconciled treadmill + outdoor + effective strength is at most
\* daysPerWeek, and no reconciled count is larger than the requested one.
C2_SessionSumWithinDays ==
    pc = "sessions_done" =>
        /\ sessions.treadmill_sessions_per_week + sessions.outdoor_hikes_per_week
           + EffectiveStrength(sessions.strength_sessions_per_week,
                               req.strength_on_cardio_days)
              <= req.days_per_week
        /\ sessions.treadmill_sessions_per_week <= req.treadmill_sessions_per_week
        /\ sessions.outdoor_hikes_per_week <= req.outdoor_hikes_per_week
        /\ sessions.strength_sessions_per_week <= req.strength_sessions_per_week

\* a call that had to cut all three counts' worth of overage
C2_Witness ==
    /\ pc = "sessions_done"
    /\ RequestedTotal > req.days_per_week
    /\ ~req.strength_on_cardio_days
    /\ sessions.strength_sessions_per_week < req.strength_sessions_per_week
    /\ sessions.outdoor_hikes_per_week < req.outdoor_hikes_per_week
    /\ sessions.treadmill_sessions_per_week < req.treadmill_sessions_per_week

\* C3: a request that fits is returned unchanged; otherwise exactly the overage
\* is removed, from strength first, then outdoor (only once strength is 0),
\* then treadmill (only once outdoor is 0), no count going below zero; with
\* strength on cardio days the returned strength is the requested one.
C3_ReductionPriority ==
    pc = "sessions_done" =>
        LET t == sessions.treadmill_sessions_per_week
            o == sessions.outdoor_hikes_per_week
            s == EffectiveStrength(sessions.strength_sessions_per_week,
                                   req.strength_on_cardio_days)
            rs == EffectiveStrength(req.strength_sessions_per_week,
                                    req.strength_on_cardio_days)
        IN  /\ RequestedTotal <= req.days_per_week =>
                /\ t = req.treadmill_sessions_per_week
                /\ o = req.outdoor_hikes_per_week
                /\ sessions.strength_sessions_per_week = req.strength_sessions_per_week
            /\ RequestedTotal > req.days_per_week =>
                /\ t + o + s = req.days_per_week
                /\ o < req.outdoor_hikes_per_week => s = 0
                /\ t < req.treadmill_sessions_per_week => (s = 0 /\ o = 0)
            /\ t >= 0 /\ o >= 0 /\ s >= 0
            /\ s <= rs
            /\ req.strength_on_cardio_days =>
                sessions.strength_sessions_per_week = req.strength_sessions_per_week

\* a call that cut outdoor, after strength went to 0, and left treadmill alone
C3_Witness ==
    /\ pc = "sessions_done"
    /\ ~req.strength_on_cardio_days
    /\ req.strength_sessions_per_week > 0
    /\ sessions.strength_sessions_per_week = 0
    /\ sessions.outdoor_hikes_per_week < req.outdoor_hikes_per_week
    /\ sessions.outdoor_hikes_per_week > 0
    /\ sessions.treadmill_sessions_per_week = req.treadmill_sessions_per_week

------------------------------------------------------------------------------
(* Weekly Volume Planner *)

RECURSIVE SeqSumTo(_, _)
SeqSumTo(s, n) == IF n = 0 THEN 0 ELSE SeqSumTo(s, n - 1) + s[n]

\* sum(s) of a list of ints
SeqSum(s) == SeqSumTo(s, Len(s))

SeqMax(s) == CHOOSE m \in {s[i] : i \in 1..Len(s)} : \A i \in 1..Len(s) : s[i] <= m

\* the deload test taken on the 0-based loop index
IsDeloadWeek_zero_based(week) == (week - 1) % 4 = 0

\* if week % 4 == 0
IsDeloadWeek(week) == week % 4 = 0

\* a build week: the next last_build
BuildStep(last_build, week, peak_week_index, weekly_target) ==
    LET remaining == IMax(peak_week_index - week + 1, 1)
        target_step == Q(weekly_target - last_build, remaining)
        min_growth == RMul(R(last_build), Q(105, 100))
        step_target == RAdd(R(last_build), target_step)
        \* max(min_growth, last_build + target_step) is floor_; next_build is the
        \* double last_build * 1.1 when max_growth is the least of the three, and
        \* that double can be above a half-integer
        NextBuild(max_growth, floor_) ==
            IF /\ TieMoves(R(last_build), Q(11, 10)) = 1
               /\ RLt(max_growth, floor_)
               /\ RLt(max_growth, R(weekly_target))
            THEN Num(max_growth) \div 2 + 1
            ELSE Round(RMin(RMin(max_growth, floor_), R(weekly_target)))
    IN  NextBuild(RMul(R(last_build), Q(11, 10)), RMax(min_growth, step_target))

\* the loop over week = 1..total_weeks, from week on
RECURSIVE VolumeLoop(_, _, _, _, _)
VolumeLoop(week, vols, last_build, total_weeks, weekly_target) ==
    IF week > total_weeks THEN vols
    ELSE IF week = total_weeks
    THEN LET peak == SeqMax(Append(vols, last_build))
         IN  VolumeLoop(week + 1, Append(vols, RoundProduct(R(peak), Q(55, 100))),
                        last_build, total_weeks, weekly_target)
    ELSE IF IsDeloadWeek(week)
    THEN VolumeLoop(week + 1, Append(vols, RoundProduct(R(last_build), Q(78, 100))),
                    last_build, total_weeks, weekly_target)
    ELSE LET Built(nb) == VolumeLoop(week + 1, Append(vols, nb), nb, total_weeks, weekly_target)
         IN  Built(BuildStep(last_build, week, IMax(total_weeks - 1, 1), weekly_target))

\* the starting last_build
VolumeSeed(baseline_minutes) ==
    IF baseline_minutes <= 30 THEN 45 ELSE IMax(30, baseline_minutes)

_build_weekly_volumes(baseline_minutes, total_weeks, weekly_target) ==
    IF total_weeks <= 1
    THEN <<IF baseline_minutes <= 30 THEN 45
           ELSE IMax(20, RoundProduct(R(baseline_minutes), Q(85, 100)))>>
    ELSE LET Capped(v) ==
                 IF baseline_minutes <= 30
                 THEN [i \in 1..Len(v) |->
                          IF i = 1 THEN IMin(v[1], 60)
                          ELSE IF i = 2 THEN IMin(v[2], 75)
                          ELSE v[i]]
                 ELSE v
         IN  Capped(VolumeLoop(1, <<>>, VolumeSeed(baseline_minutes), total_weeks,
                               weekly_target))

\* baseline minutes and weekly volume targets tried
Baselines == {0, 20, 30, 31, 45, 60, 90}
WeeklyTargets == {0, 30, 44, 45, 50, 63, 100, 200, 400, 630}

InitVolumes ==
    /\ pc = "volumes"
    /\ vol_in \in [baseline_minutes : Baselines, total_weeks : 1..MaxWeeks,
                    weekly_target : WeeklyTargets]
    /\ volumes = None
    /\ NoSessionCall
    /\ NoPlanCall
    /\ NoPlaceCall

BuildWeeklyVolumes ==
    /\ pc = "volumes"
    /\ volumes' = _build_weekly_volumes(vol_in.baseline_minutes, vol_in.total_weeks,
                                        vol_in.weekly_target)
    /\ pc' = "volumes_done"
    /\ UNCHANGED <<sessionVars, vol_in, planVars, placeVars>>

NextVolumes == BuildWeeklyVolumes

SpecVolumes == InitVolumes /\ [][NextVolumes]_vars

\* C8: from week 2 on, a deload week (w % 4 = 0) or the final week is not above
\* the week before it, and every other week is not below the week before it.
C8_VolumeShape ==
    pc = "volumes_done" =>
        \A w \in 2..Len(volumes) :
            IF w % 4 = 0 \/ w = Len(volumes)
            THEN volumes[w] <= volumes[w - 1]
            ELSE volumes[w] >= volumes[w - 1]

\* a plan with a deload week that drops, a build week right after it that rises
\* and a taper week that drops
C8_Witness ==
    /\ pc = "volumes_done"
    /\ Len(volumes) >= 6
    /\ volumes[4] < volumes[3]
    /\ volumes[5] > volumes[4]
    /\ volumes[Len(volumes)] < volumes[Len(volumes) - 1]

------------------------------------------------------------------------------
(* Segment Synthesizer *)

\* the sum of s[a..b], halving the range
RECURSIVE RSumRange(_, _, _)
RSumRange(s, a, b) ==
    IF a > b THEN R(0)
    ELSE IF a = b THEN s[a]
    ELSE RAdd(RSumRange(s, a, (a + b) \div 2), RSumRange(s, (a + b) \div 2 + 1, b))

\* sum(s) of a list of floats
RSum(s) == RSumRange(s, 1, Len(s))

\* s[a:b] with 0-based a, b as in Python
Slice(s, a, b) == [i \in 1..IMax(b - a, 0) |-> s[a + i]]

\* (delta / (distance * 5280)) * 100
GradePercent(delta, distance) == RMul(RDiv(delta, RMul(distance, R(5280))), R(100))

_build_segments(points) ==
    IF Len(points) < 2 THEN <<>>
    ELSE [idx \in 1..(Len(points) - 1) |->
            LET current == points[idx + 1]
                previous == points[idx]
                distance == RMax(RSub(current.distance_miles, previous.distance_miles), Q(1, 100))
                elevation_delta == RSub(current.elevation_ft, previous.elevation_ft)
            IN  [distance_miles |-> distance,
                 elevation_delta_ft |-> elevation_delta,
                 grade_percent |-> GradePercent(elevation_delta, distance)]]

\* one pass of the bisection: every segment becomes two halves of the same grade
ExpandSegments(normalized) ==
    [i \in 1..(2 * Len(normalized)) |->
        LET seg == normalized[(i + 1) \div 2]
        IN  [distance_miles |-> RDiv(seg.distance_miles, R(2)),
             elevation_delta_ft |-> RDiv(seg.elevation_delta_ft, R(2)),
             grade_percent |-> seg.grade_percent]]

\* one pass of the grouping: buckets of ceil(n / 30) consecutive segments
GroupSegments(normalized) ==
    LET n == Len(normalized)
        group_size == (n + 29) \div 30
        count == (n + group_size - 1) \div group_size
    IN  [g \in 1..count |->
            LET group == Slice(normalized, (g - 1) * group_size, IMin(g * group_size, n))
                distance == RSum([k \in 1..Len(group) |-> group[k].distance_miles])
                elevation == RSum([k \in 1..Len(group) |-> group[k].elevation_delta_ft])
            IN  [distance_miles |-> distance,
                 elevation_delta_ft |-> elevation,
                 grade_percent |-> IF distance = R(0) THEN R(0)
                                   ELSE GradePercent(elevation, distance)]]

RECURSIVE ExpandLoop(_)
ExpandLoop(normalized) ==
    IF Len(normalized) < 10 THEN ExpandLoop(ExpandSegments(normalized)) ELSE normalized

RECURSIVE GroupLoop(_)
GroupLoop(normalized) ==
    IF Len(normalized) > 30 THEN GroupLoop(GroupSegments(normalized)) ELSE normalized

_normalize_segment_count(segments) ==
    IF Len(segments) = 0 THEN <<>> ELSE GroupLoop(ExpandLoop(segments))

_smooth_grades(grades) ==
    [idx \in 1..Len(grades) |->
        LET window == Slice(grades, IMax(0, idx - 2), IMin(Len(grades), idx + 1))
        IN  RDiv(RSum(window), R(Len(window)))]

FitnessLevels == {"Beginner", "Intermediate", "Advanced"}

_fitness_speeds(fitness_level) ==
    CASE fitness_level = "Beginner" -> [min |-> R(2), max |-> Q(32, 10)]
      [] fitness_level = "Intermediate" -> [min |-> Q(28, 10), max |-> Q(42, 10)]
      [] fitness_level = "Advanced" -> [min |-> Q(32, 10), max |-> R(5)]

_compute_speed(incline, fitness_level, max_speed, pack_weight_lbs) ==
    LET grade_penalty == RMul(RMax(incline, R(0)), Q(8, 100))
        DownhillBoost(range_) ==
            IF RLt(incline, R(0))
            THEN RMin(RMul(RAbs(incline), Q(3, 100)), RMul(range_, Q(3, 10)))
            ELSE R(0)
        Loaded(speed) ==
            IF RGt(pack_weight_lbs, R(0))
            THEN RSub(speed, RMul(pack_weight_lbs, Q(1, 100)))
            ELSE speed
        Speed(speeds) ==
            _clamp(Loaded(RAdd(RSub(speeds.max, grade_penalty),
                               DownhillBoost(RSub(speeds.max, speeds.min)))),
                   speeds.min, RMin(max_speed, speeds.max))
    IN  Speed(_fitness_speeds(fitness_level))

_warm_up_speed_for(fitness_level) ==
    CASE fitness_level = "Beginner" -> R(2)
      [] fitness_level = "Intermediate" -> Q(26, 10)
      [] fitness_level = "Advanced" -> R(3)

\* the minutes of the body segments: the loop of _generate_plan with its accumulator
RECURSIVE SegmentMinutes(_, _, _, _, _)
SegmentMinutes(idx, accumulated, portions, main_duration, done) ==
    IF idx > Len(portions) THEN done
    ELSE LET raw_minutes == IF idx = Len(portions)
                            THEN RSub(main_duration, accumulated)
                            ELSE RMul(main_duration, portions[idx])
             Rest(minutes) ==
                 SegmentMinutes(idx + 1, RAdd(accumulated, minutes), portions,
                                main_duration, Append(done, minutes))
         IN  Rest(_round_to_step(raw_minutes, Q(1, 2)))

\* settings: fitness_level, target_duration_minutes, pack_weight_lbs, and treadmill
\* with min_incline_percent, max_incline_percent, max_speed_mph
_generate_plan(profile_points, distance_miles, elevation_gain_ft, settings) ==
    LET total_minutes == RMax(settings.target_duration_minutes, R(20))
        min_incline == settings.treadmill.min_incline_percent
        max_incline == settings.treadmill.max_incline_percent
        max_speed == settings.treadmill.max_speed_mph
        Grades(normalized) == [i \in 1..Len(normalized) |-> normalized[i].grade_percent]
        EffortScores(normalized) ==
            [i \in 1..Len(normalized) |->
                RAdd(normalized[i].distance_miles,
                     RMul(RDiv(RMax(normalized[i].elevation_delta_ft, R(0)), R(1000)),
                          Q(14, 10)))]
        \* total_effort = sum(effort_scores) or 1
        Portions(effort_scores, sum_effort) ==
            [i \in 1..Len(effort_scores) |->
                RDiv(effort_scores[i], IF sum_effort = R(0) THEN R(1) ELSE sum_effort)]
        Minutes(effort_scores) ==
            SegmentMinutes(1, R(0), Portions(effort_scores, RSum(effort_scores)),
                           RMax(RSub(total_minutes, R(10)), R(5)), <<>>)
        Segment(idx, minutes, incline) ==
            [segment |-> idx,
             minutes |-> _round_to_step(minutes, Q(1, 2)),
             incline_percent |->
                 _clamp(_round_to_step(incline, Q(1, 2)), min_incline, max_incline),
             speed_mph |->
                 _clamp(_round_to_step(_compute_speed(incline, settings.fitness_level,
                                                      max_speed, settings.pack_weight_lbs),
                                       Q(1, 10)),
                        R(0), max_speed),
             notes |-> ""]
        Segments(smoothed, mins) ==
            [idx \in 1..Len(smoothed) |->
                Segment(idx, mins[idx], _clamp(smoothed[idx], min_incline, max_incline))]
        Edge(index, incline, speed, note) ==
            [segment |-> index,
             minutes |-> R(5),
             incline_percent |->
                 _clamp(_round_to_step(_clamp(incline, min_incline, max_incline), Q(1, 2)),
                        min_incline, max_incline),
             speed_mph |-> _clamp(_round_to_step(speed, Q(1, 10)), R(0), max_speed),
             notes |-> note]
        WarmUp(speed) == Edge(0, R(1), _clamp(speed, Q(18, 10), max_speed), "Warm-up")
        CoolDown(index, speed) ==
            Edge(index, Q(1, 2),
                 _clamp(RMax(RSub(speed, Q(2, 10)), _fitness_speeds(settings.fitness_level).min),
                        Q(16, 10), max_speed),
                 "Cool-down")
        Plan(segments, warm_up_speed) ==
            [total_minutes |-> total_minutes,
             segments |-> <<WarmUp(warm_up_speed)>> \o segments
                          \o <<CoolDown(Len(segments) + 1, warm_up_speed)>>]
        FromNormalized(normalized) ==
            Plan(Segments(_smooth_grades(Grades(normalized)),
                          Minutes(EffortScores(normalized))),
                 _warm_up_speed_for(settings.fitness_level))
    IN  FromNormalized(_normalize_segment_count(_build_segments(profile_points)))

------------------------------------------------------------------------------
(* Interval Shaper, Grade Smoother and the serialized segments *)

_to_training_segments(segments) ==
    [i \in 1..Len(segments) |->
        [index |-> segments[i].segment,
         minutes |-> segments[i].minutes,
         inclinePct |-> Round1(segments[i].incline_percent),
         speedMph |-> Round1(segments[i].speed_mph),
         note |-> IF segments[i].notes = "" THEN None ELSE segments[i].notes]]

_smooth_segment_inclines(segments, window_size) ==
    [i \in 1..Len(segments) |->
        LET idx == i - 1
            start == IMax(0, idx - (window_size \div 2))
            end == IMin(Len(segments), idx + ((window_size + 1) \div 2))
            window == Slice([k \in 1..Len(segments) |-> segments[k].incline_percent],
                            start, end)
            avg == RDiv(RSum(window), R(Len(window)))
        IN  [segments[i] EXCEPT !.incline_percent = Round1(avg)]]

_apply_interval_pattern(segments, constraints, incline_cap) ==
    IF Len(segments) <= 2 THEN segments
    ELSE [i \in 1..Len(segments) |->
            LET segment == segments[i]
                idx == i - 1
                is_hard == idx % 2 = 1
                factor == IF is_hard THEN Q(115, 100) ELSE Q(85, 100)
                adjusted_incline ==
                    _clamp(_round_to_step(_clamp(RMul(segment.incline_percent, factor),
                                                 R(0), incline_cap), Q(1, 2)),
                           R(0), incline_cap)
                adjusted_speed ==
                    _clamp(_round_to_step(
                               _clamp(RMul(segment.speed_mph,
                                           IF is_hard THEN Q(92, 100) ELSE Q(105, 100)),
                                      Q(18, 10), constraints.max_speed_mph),
                               Q(1, 10)),
                           R(0), constraints.max_speed_mph)
            IN  IF segment.segment = 0 \/ segment.notes = "Cool-down" THEN segment
                ELSE [segment |-> segment.segment,
                      minutes |-> segment.minutes,
                      incline_percent |-> adjusted_incline,
                      speed_mph |-> adjusted_speed,
                      notes |-> IF segment.notes # "" THEN segment.notes
                                ELSE IF is_hard THEN "Hard interval" ELSE "Recovery"]]

------------------------------------------------------------------------------
(* Workouts *)

WorkoutTypes ==
    {"Treadmill intervals", "Zone 2 incline walk", "Strength", "Outdoor long hike",
     "Recovery / mobility", "Rest day"}

\* weight_map, in hundredths
WeightPercent(workout_type) ==
    CASE workout_type = "Outdoor long hike" -> 35
      [] workout_type = "Treadmill intervals" -> 25
      [] workout_type = "Zone 2 incline walk" -> 25
      [] workout_type = "Strength" -> 15
      [] workout_type = "Recovery / mobility" -> 10
      [] workout_type = "Rest day" -> 0

_allocate_durations(week_volume, workout_type) ==
    IMax(20, RoundProduct(R(week_volume), Q(WeightPercent(workout_type), 100)))

_clamp_duration(duration, fitness_level) ==
    LET max_by_level == CASE fitness_level = "Beginner" -> 60
                          [] fitness_level = "Intermediate" -> 75
                          [] fitness_level = "Advanced" -> 90
    IN  RMin(RMax(duration, R(25)), R(max_by_level))

_clamp_average_grade(points, min_grade, max_grade) ==
    IF Len(points) < 2 THEN min_grade
    ELSE LET Average(grades) == RDiv(RSum(grades), R(IMax(Len(grades), 1)))
         IN  RMin(RMax(Average([idx \in 1..(Len(points) - 1) |->
                                   GradePercent(
                                       RSub(points[idx + 1].elevation_ft,
                                            points[idx].elevation_ft),
                                       RMax(RSub(points[idx + 1].distance_miles,
                                                 points[idx].distance_miles), Q(1, 100)))]),
                       min_grade),
                  max_grade)

\* "mobility" in phase, "recovery" in phase, "maintenance" in phase
PhaseHas(word, phase) ==
    CASE word = "mobility" -> phase = "light mobility for recovery"
      [] word = "recovery" -> phase = "light mobility for recovery"
      [] word = "maintenance" -> phase = "maintenance strength"

_strength_duration_for_week(week_volume, phase, is_event_prep_week) ==
    LET base == _allocate_durations(week_volume, "Strength")
        multiplier0 == IF PhaseHas("mobility", phase) \/ PhaseHas("recovery", phase)
                       THEN Q(7, 10)
                       ELSE IF PhaseHas("maintenance", phase) THEN Q(85, 100) ELSE R(1)
        multiplier == IF is_event_prep_week THEN RMin(multiplier0, Q(7, 10)) ELSE multiplier0
        Capped(duration) == IF is_event_prep_week THEN IMin(duration, 15) ELSE duration
    IN  Capped(IMax(12, RoundProduct(R(base), multiplier)))

\* workout_type.replace(' ', '-').lower()
Slug(workout_type) ==
    CASE workout_type = "Treadmill intervals" -> "treadmill-intervals"
      [] workout_type = "Zone 2 incline walk" -> "zone-2-incline-walk"
      [] workout_type = "Strength" -> "strength"
      [] workout_type = "Outdoor long hike" -> "outdoor-long-hike"
      [] workout_type = "Recovery / mobility" -> "recovery-/-mobility"
      [] workout_type = "Rest day" -> "rest-day"

\* f"{week_number}-{slug}", kept as its parts
_workout_id(week_number, workout_type) == <<week_number, "-", Slug(workout_type)>>

\* the settings _build_workout hands to _generate_plan
TreadmillSettings(fitness_level, target_duration_minutes, incline_cap, constraints) ==
    [fitness_level |-> fitness_level,
     target_duration_minutes |-> target_duration_minutes,
     pack_weight_lbs |-> R(0),
     treadmill |-> [min_incline_percent |-> R(0),
                    max_incline_percent |-> incline_cap,
                    max_speed_mph |-> constraints.max_speed_mph]]

_build_workout(week_number, workout_type, week_volume, fitness_level, hike, constraints, long_hike_minutes, is_taper_week, is_deload_week, is_adaptation_week, strength_phase, long_session_minutes, incline_cap_arg, is_long_session, is_event_prep_week) ==
    LET allocations == _allocate_durations(week_volume, workout_type)
        duration == IF is_adaptation_week
                    THEN _clamp(R(allocations), R(15), R(25))
                    ELSE R(allocations)
        incline_cap == IF is_adaptation_week
                       THEN RMin(R(constraints.treadmill_max_incline_percent), R(3))
                       ELSE incline_cap_arg
        \* _generate_plan(...) of both treadmill types
        Generated(target_duration_minutes) ==
            _generate_plan(hike.profile_points, hike.distance_miles, hike.elevation_gain_ft,
                           TreadmillSettings(fitness_level,
                               _clamp_duration(target_duration_minutes, fitness_level),
                               incline_cap, constraints))
        Intervals(generated) ==
            [id |-> _workout_id(week_number, workout_type),
             type |-> workout_type,
             durationMinutes |-> generated.total_minutes,
             notes |-> IF is_deload_week \/ is_taper_week
                       THEN "Shorter intervals, keep effort smooth."
                       ELSE "Incline intervals based on hike profile.",
             segments |-> _to_training_segments(
                              _apply_interval_pattern(generated.segments, constraints,
                                                      incline_cap))]
        \* target_minutes of the Zone 2 walk
        Zone2Minutes(base_minutes) ==
            IF is_long_session
            THEN RMax(base_minutes, long_session_minutes)
            ELSE R(RoundProduct(base_minutes, Q(9, 10)))
        Zone2(generated) ==
            [id |-> _workout_id(week_number, workout_type),
             type |-> workout_type,
             durationMinutes |-> generated.total_minutes,
             inclineTarget |-> _clamp_average_grade(hike.profile_points, R(2), incline_cap),
             notes |-> "Steady state, nose-breathing effort.",
             segments |-> _to_training_segments(
                              _smooth_segment_inclines(generated.segments, 5))]
        \* long_minutes of the outdoor hike, from min(target, long_hike_minutes + 20)
        LongMinutes(capped) == IF is_event_prep_week THEN RMax(capped, R(60)) ELSE capped
    IN  CASE workout_type = "Treadmill intervals" -> Intervals(Generated(duration))
          [] workout_type = "Zone 2 incline walk" -> Zone2(Generated(Zone2Minutes(duration)))
          [] workout_type = "Strength" ->
               [id |-> _workout_id(week_number, workout_type),
                type |-> workout_type,
                durationMinutes |->
                    R(_strength_duration_for_week(week_volume, strength_phase,
                                                  is_event_prep_week)),
                notes |-> IF is_event_prep_week
                          THEN "Reduced strength load; focus on mobility and activation. Intensity: light."
                          ELSE "Bodyweight squats, lunges, step-ups, core. Intensity: moderate."]
          [] workout_type = "Outdoor long hike" ->
               [id |-> _workout_id(week_number, workout_type),
                type |-> workout_type,
                durationMinutes |->
                    LongMinutes(RMin(RMax(long_session_minutes, long_hike_minutes),
                                     RAdd(long_hike_minutes, R(20)))),
                notes |-> IF is_event_prep_week
                          THEN <<"Long outdoor hike with a light weighted pack. Keep effort steady.">>
                          ELSE <<"Focus on time-on-feet with",
                                 RoundProduct(hike.elevation_gain_ft, Q(3, 10)),
                                 "ft of climbing.">>]
          [] workout_type = "Rest day" ->
               [id |-> _workout_id(week_number, workout_type),
                type |-> workout_type,
                durationMinutes |-> R(0),
                notes |-> "Rest day."]
          [] workout_type = "Recovery / mobility" ->
               [id |-> _workout_id(week_number, workout_type),
                type |-> workout_type,
                durationMinutes |-> R(25),
                notes |-> "Active recovery: 30-60% max HR. Mobility, stretching, easy walk."]

------------------------------------------------------------------------------
(* Workout-Type Slot Scheduler *)

_is_high_volume_cardio(workout_type) ==
    workout_type \in {"Outdoor long hike", "Treadmill intervals"}

\* the indices 0..length-1 in ascending order
_build_alternating_order_ascending(length) == [k \in 1..length |-> k - 1]

\* the indices 0..length-1, even ones first
_build_alternating_order(length) ==
    LET evens == (length + 1) \div 2
    IN  [k \in 1..length |-> IF k <= evens THEN 2 * (k - 1) ELSE 2 * (k - evens) - 1]

\* slots is 1-based here: slot index i of the code is slots[i + 1];
\* avoid is the set of types should_avoid accepts
_has_adjacent_match(index, slots, avoid) ==
    LET prev == IF index > 0 THEN slots[index] ELSE None
        nxt == IF index < Len(slots) - 1 THEN slots[index + 2] ELSE None
    IN  (prev # None /\ prev \in avoid) \/ (nxt # None /\ nxt \in avoid)

\* the first index of order, from position k on, that passes ok; -1 if none does
RECURSIVE FirstInOrder(_, _, _, _, _)
FirstInOrder(order, k, slots, avoid, check_adjacent) ==
    IF k > Len(order) THEN -1
    ELSE IF slots[order[k] + 1] # None
    THEN FirstInOrder(order, k + 1, slots, avoid, check_adjacent)
    ELSE IF check_adjacent /\ _has_adjacent_match(order[k], slots, avoid)
    THEN FirstInOrder(order, k + 1, slots, avoid, check_adjacent)
    ELSE order[k]

\* the body of the loop of _place_workouts for one workout
PlaceOne(slots, workout, avoid) ==
    LET order == _build_alternating_order(Len(slots))
        free == FirstInOrder(order, 1, slots, avoid, TRUE)
        open == FirstInOrder(order, 1, slots, avoid, FALSE)
    IN  IF free >= 0 THEN [slots EXCEPT ![free + 1] = workout]
        ELSE IF open >= 0 THEN [slots EXCEPT ![open + 1] = workout]
        ELSE slots

RECURSIVE PlaceFrom(_, _, _, _)
PlaceFrom(slots, workouts, k, avoid) ==
    IF k > Len(workouts) THEN slots
    ELSE PlaceFrom(PlaceOne(slots, workouts[k], avoid), workouts, k + 1, avoid)

_place_workouts(slots, workouts, avoid) == PlaceFrom(slots, workouts, 1, avoid)

\* [x for x in s if keep(x)], keep given as a set
RECURSIVE FilterSeq(_, _, _)
FilterSeq(s, k, keep) ==
    IF k > Len(s) THEN <<>>
    ELSE IF s[k] \in keep THEN <<s[k]>> \o FilterSeq(s, k + 1, keep)
    ELSE FilterSeq(s, k + 1, keep)

\* the type of the i-th treadmill session with event-prep weeks treated as any
\* other week
TreadmillSlotType_no_event_prep(i, is_event_prep_week, requires_treadmill_long, is_deload_week, is_taper_week, is_early_week) ==
    IF requires_treadmill_long /\ i = 0 THEN "Zone 2 incline walk"
    ELSE IF is_deload_week \/ is_taper_week \/ is_early_week THEN "Zone 2 incline walk"
    ELSE IF i = 0 THEN "Treadmill intervals"
    ELSE "Zone 2 incline walk"

\* the type of the i-th (0-based) treadmill session
TreadmillSlotType(i, is_event_prep_week, requires_treadmill_long, is_deload_week, is_taper_week, is_early_week) ==
    IF is_event_prep_week THEN "Outdoor long hike"
    ELSE IF requires_treadmill_long /\ i = 0 THEN "Zone 2 incline walk"
    ELSE IF is_deload_week \/ is_taper_week \/ is_early_week THEN "Zone 2 incline walk"
    ELSE IF i = 0 THEN "Treadmill intervals"
    ELSE "Zone 2 incline walk"

_build_week_workouts(week_number, total_weeks, week_volume, days_per_week, treadmill_sessions_per_week, outdoor_hikes_per_week, strength_sessions_per_week, include_strength, strength_on_cardio_days, is_event_prep_week, fill_active_recovery_days) ==
    LET day_count == IMax(1, days_per_week)
        outdoor_count == IMin(outdoor_hikes_per_week, day_count)
        treadmill_count == IMin(treadmill_sessions_per_week, day_count)
        strength_count == IF include_strength /\ ~strength_on_cardio_days
                          THEN IMin(strength_sessions_per_week, day_count)
                          ELSE 0
        is_deload_week == week_number % 4 = 0
        is_taper_week == week_number = total_weeks
        is_early_week == week_number <= 2
        requires_treadmill_long == outdoor_count = 0 /\ treadmill_count > 0
        slots0 == [i \in 1..day_count |-> None]
        cardio0 == [i \in 1..IMax(outdoor_count, 0) |-> "Outdoor long hike"]
                   \o [i \in 1..IMax(treadmill_count, 0) |->
                          TreadmillSlotType(i - 1, is_event_prep_week,
                              requires_treadmill_long, is_deload_week, is_taper_week,
                              is_early_week)]
        cardio_workouts == IF is_event_prep_week /\ outdoor_count = 0 /\ treadmill_count > 0
                           THEN <<"Outdoor long hike">> \o cardio0
                           ELSE cardio0
        slots1 == _place_workouts(slots0, [i \in 1..IMax(strength_count, 0) |-> "Strength"],
                                  {"Strength"})
        high_volume == FilterSeq(cardio_workouts, 1,
                                 {"Outdoor long hike", "Treadmill intervals"})
        low_volume == FilterSeq(cardio_workouts, 1,
                                WorkoutTypes \ {"Outdoor long hike", "Treadmill intervals"})
        slots2 == _place_workouts(slots1, high_volume,
                                  {"Outdoor long hike", "Treadmill intervals"})
        slots3 == _place_workouts(slots2, low_volume, {})
        fallback == IF fill_active_recovery_days THEN "Recovery / mobility" ELSE "Rest day"
    IN  [i \in 1..day_count |-> IF slots3[i] # None THEN slots3[i] ELSE fallback]

------------------------------------------------------------------------------
(* The slot scheduler, one placement at a time *)

\* the longest slots list drawn
MaxSlots == 5

\* cardio_workouts as _build_week_workouts fills it
CardioWorkouts(outdoor_count, treadmill_count, is_event_prep_week, is_early_week) ==
    LET WithInsert(cardio) ==
            IF is_event_prep_week /\ outdoor_count = 0 /\ treadmill_count > 0
            THEN <<"Outdoor long hike">> \o cardio
            ELSE cardio
    IN  WithInsert([i \in 1..outdoor_count |-> "Outdoor long hike"]
                   \o [i \in 1..treadmill_count |->
                          TreadmillSlotType(i - 1, is_event_prep_week,
                              outdoor_count = 0 /\ treadmill_count > 0, FALSE, FALSE,
                              is_early_week)])

\* _build_week_workouts up to its first call of _place_workouts: empty slots, the
\* strength workouts to place, the two cardio calls still to come
InitPlacing ==
    /\ pc = "placing"
    /\ \E day_count \in 1..MaxSlots, is_event_prep_week, is_early_week \in BOOLEAN :
         \E outdoor_count, treadmill_count, strength_count \in 0..IMin(MaxSessions, day_count) :
           \E cardio_workouts \in {CardioWorkouts(outdoor_count, treadmill_count,
                                                  is_event_prep_week, is_early_week)} :
             /\ slot_list = [i \in 1..day_count |-> None]
             /\ to_place = [i \in 1..strength_count |-> "Strength"]
             /\ avoided = {"Strength"}
             /\ queued = << [workouts |-> FilterSeq(cardio_workouts, 1,
                                          {"Outdoor long hike", "Treadmill intervals"}),
                             avoid |-> {"Outdoor long hike", "Treadmill intervals"}],
                            [workouts |-> FilterSeq(cardio_workouts, 1,
                                          WorkoutTypes \ {"Outdoor long hike",
                                                          "Treadmill intervals"}),
                             avoid |-> {}] >>
    /\ NoSessionCall
    /\ NoVolumeCall
    /\ NoPlanCall

\* one turn of the loop "for workout in workouts" of _place_workouts
PlaceWorkout ==
    /\ pc = "placing"
    /\ to_place # <<>>
    /\ slot_list' = PlaceOne(slot_list, Head(to_place), avoided)
    /\ to_place' = Tail(to_place)
    /\ UNCHANGED <<pc, avoided, queued, sessionVars, volumeVars, planVars>>

\* _place_workouts returns and _build_week_workouts calls it for the next list
NextPlacement ==
    /\ pc = "placing"
    /\ to_place = <<>>
    /\ queued # <<>>
    /\ to_place' = Head(queued).workouts
    /\ avoided' = Head(queued).avoid
    /\ queued' = Tail(queued)
    /\ UNCHANGED <<pc, slot_list, sessionVars, volumeVars, planVars>>

NextPlacing == PlaceWorkout \/ NextPlacement

SpecPlacing == InitPlacing /\ [][NextPlacing]_vars

------------------------------------------------------------------------------
(* Dates *)

\* A date string is [fmt, day]: fmt "YYYY-MM-DD" is a plain date, "ISO-stamp" a
\* longer ISO 8601 stamp of that day (with a time), anything else parses under
\* neither format.  A date is its day ordinal.
\* What a function gives back is a record whose field raised is None when it
\* returns, and the name of the exception when it raises.
ValueError == [raised |-> "ValueError"]
ZeroDivisionError == [raised |-> "ZeroDivisionError"]

\* strptime(value, "%Y-%m-%d"), and on ValueError datetime.fromisoformat(value)
_parse_local_date(value) ==
    IF value.fmt = "YYYY-MM-DD" THEN [raised |-> None, value |-> value.day]
    ELSE IF value.fmt = "ISO-stamp" THEN [raised |-> None, value |-> value.day]
    ELSE ValueError

_to_start_of_day(dt) == dt

_to_iso_date(dt) == [fmt |-> "YYYY-MM-DD", day |-> dt]

\* date.weekday(): 0 = Monday .. 6 = Sunday
Weekday(dt) == dt % 7

_day_name(dt) == <<"Mon", "Tue", "Wed", "Thu", "Fri", "Sat", "Sun">>[Weekday(dt) + 1]

\* a // b of Python (floor), b # 0
FloorDiv(a, b) == IF b > 0 THEN a \div b ELSE (-a) \div (-b)

\* s[:n] of Python
Prefix(s, n) ==
    LET m == IF n >= 0 THEN IMin(n, Len(s)) ELSE IMax(Len(s) + n, 0)
    IN  [i \in 1..m |-> s[i]]

InSeq(x, s) == \E i \in 1..Len(s) : s[i] = x

------------------------------------------------------------------------------
(* Calendar Day Scheduler *)

_build_week_dates(start, end) == [i \in 1..IMax(end - start + 1, 0) |-> start + i - 1]

RECURSIVE DedupeFrom(_, _, _)
DedupeFrom(dates, k, result) ==
    IF k > Len(dates) THEN result
    ELSE IF InSeq(dates[k], result) THEN DedupeFrom(dates, k + 1, result)
    ELSE DedupeFrom(dates, k + 1, Append(result, dates[k]))

_dedupe_dates(dates) == DedupeFrom(dates, 1, <<>>)

\* [day for day in preferred_days if 0 <= day <= 6]
SafePreferred(preferred_days) == FilterSeq(preferred_days, 1, 0..6)

\* (current.weekday() + 1) % 7
ScheduleWeekday(current) == (Weekday(current) + 1) % 7

\* the first loop over week_dates: collect preferred dates, stop at days_per_week
RECURSIVE CollectPreferred(_, _, _, _, _)
CollectPreferred(week_dates, k, days, preferred, days_per_week) ==
    IF k > Len(week_dates) THEN days
    ELSE LET days1 == IF InSeq(ScheduleWeekday(week_dates[k]), preferred)
                      THEN Append(days, week_dates[k])
                      ELSE days
         IN  IF Len(days1) >= days_per_week THEN days1
             ELSE CollectPreferred(week_dates, k + 1, days1, preferred, days_per_week)

\* a second loop that adds nothing
TopUp_none(week_dates, k, days, preferred, days_per_week) == days

\* the second loop over week_dates: top up with dates that are not preferred
RECURSIVE TopUp(_, _, _, _, _)
TopUp(week_dates, k, days, preferred, days_per_week) ==
    IF k > Len(week_dates) \/ Len(days) >= days_per_week THEN days
    ELSE IF ~InSeq(ScheduleWeekday(week_dates[k]), preferred)
    THEN TopUp(week_dates, k + 1, Append(days, week_dates[k]), preferred, days_per_week)
    ELSE TopUp(week_dates, k + 1, days, preferred, days_per_week)

NotEnoughPreferredDays == "Not enough preferred days this week; some sessions may be skipped."

\* _schedule_week_days without the early return of lines 777-781: a short list of
\* preferred dates is topped up and no warning is given
_schedule_week_days_always_topped_up(week_start, week_end, days_per_week, preferred_days, any_days, required_sessions) ==
    LET preferred == SafePreferred(preferred_days)
        week_dates == _build_week_dates(week_start, week_end)
    IN  IF any_days \/ Len(preferred) = 0
        THEN IF days_per_week = 0 THEN ZeroDivisionError
             ELSE LET step == IMax(1, FloorDiv(Len(week_dates), days_per_week))
                      days == [i \in 1..IMax(days_per_week, 0) |->
                                 week_dates[IMin((i - 1) * step, Len(week_dates) - 1) + 1]]
                  IN  [raised |-> None, days |-> _dedupe_dates(days), warning |-> None]
        ELSE [raised |-> None,
              days |-> TopUp(week_dates, 1,
                             CollectPreferred(week_dates, 1, <<>>, preferred, days_per_week),
                             preferred, days_per_week),
              warning |-> None]

_schedule_week_days(week_start, week_end, days_per_week, preferred_days, any_days, required_sessions) ==
    LET preferred == SafePreferred(preferred_days)
        week_dates == _build_week_dates(week_start, week_end)
    IN  IF any_days \/ Len(preferred) = 0
        THEN IF days_per_week = 0 THEN ZeroDivisionError
             ELSE LET step == IMax(1, FloorDiv(Len(week_dates), days_per_week))
                      days == [i \in 1..IMax(days_per_week, 0) |->
                                 week_dates[IMin((i - 1) * step, Len(week_dates) - 1) + 1]]
                  IN  [raised |-> None, days |-> _dedupe_dates(days), warning |-> None]
        ELSE LET days == CollectPreferred(week_dates, 1, <<>>, preferred, days_per_week)
             IN  IF Len(days) < required_sessions
                 THEN [raised |-> None, days |-> days, warning |-> NotEnoughPreferredDays]
                 ELSE IF Len(days) < days_per_week
                 THEN [raised |-> None,
                       days |-> TopUp(week_dates, 1, days, preferred, days_per_week),
                       warning |-> None]
                 ELSE [raised |-> None, days |-> days, warning |-> None]

\* the first loop of _pick_training_days
RECURSIVE PickPreferred(_, _, _, _)
PickPreferred(safe_preferred, k, selection, days_per_week) ==
    IF k > Len(safe_preferred) THEN selection
    ELSE LET sel1 == IF InSeq(safe_preferred[k], selection) THEN selection
                     ELSE Append(selection, safe_preferred[k])
         IN  IF Len(sel1) >= days_per_week THEN sel1
             ELSE PickPreferred(safe_preferred, k + 1, sel1, days_per_week)

\* the second loop of _pick_training_days
RECURSIVE PickOrdered(_, _, _, _)
PickOrdered(ordered, k, selection, days_per_week) ==
    IF k > Len(ordered) \/ Len(selection) >= days_per_week THEN selection
    ELSE IF InSeq(ordered[k], selection)
    THEN PickOrdered(ordered, k + 1, selection, days_per_week)
    ELSE PickOrdered(ordered, k + 1, Append(selection, ordered[k]), days_per_week)

_pick_training_days(days_per_week, preferred_days, any_days) ==
    LET ordered == <<0, 2, 4, 5, 1, 3, 6>>
        safe_preferred == SafePreferred(preferred_days)
        selection0 == IF ~any_days /\ Len(safe_preferred) > 0
                      THEN PickPreferred(safe_preferred, 1, <<>>, days_per_week)
                      ELSE <<>>
    IN  Prefix(PickOrdered(ordered, 1, selection0, days_per_week), days_per_week)

------------------------------------------------------------------------------
(* Hike Demand Analyzer and Peak Target Builder *)

\* the largest of m and the members of s
RSeqMax(s, m) ==
    CHOOSE x \in {s[i] : i \in 1..Len(s)} \cup {m} :
        RGe(x, m) /\ \A i \in 1..Len(s) : RGe(x, s[i])

\* <<average, max_sustained>>
_compute_grade_stats(points) ==
    IF Len(points) < 2 THEN <<R(0), R(0)>>
    ELSE LET window == 3
             \* avg of grades[i : i + window], for i in range(len(grades))
             WindowAverages(grades) ==
                 [i \in 1..Len(grades) |->
                     RDiv(RSumRange(grades, i, IMin(i - 1 + window, Len(grades))),
                          R(IMin(i - 1 + window, Len(grades)) - i + 1))]
             Stats(average, avgs) == <<average, RSeqMax(avgs, average)>>
             FromGrades(grades) ==
                 Stats(RDiv(RSum(grades), R(Len(grades))), WindowAverages(grades))
         IN  FromGrades([idx \in 1..(Len(points) - 1) |->
                            GradePercent(
                                RSub(points[idx + 1].elevation_ft, points[idx].elevation_ft),
                                RMax(RSub(points[idx + 1].distance_miles,
                                          points[idx].distance_miles), Q(1, 100)))])

_derive_hike_demands(hike) ==
    LET Demands(stats) ==
            [estimated_duration_minutes |->
                 Round(RMul(RAdd(RDiv(hike.distance_miles, R(3)),
                                 RMul(RDiv(hike.elevation_gain_ft, R(1000)), Q(1, 2))),
                            R(60))),
             total_elevation_gain_ft |-> hike.elevation_gain_ft,
             average_grade_pct |-> stats[1],
             max_sustained_grade_pct |-> stats[2]]
    IN  Demands(_compute_grade_stats(hike.profile_points))

_build_peak_targets(demands, total_weeks) ==
    LET duration_factor == IF total_weeks >= 8 THEN Q(85, 100)
                           ELSE IF total_weeks >= 4 THEN Q(78, 100) ELSE Q(7, 10)
        volume_multiplier == IF total_weeks >= 8 THEN Q(18, 10) ELSE Q(15, 10)
    IN  [long_session_target |->
             RoundProduct(R(demands.estimated_duration_minutes), duration_factor),
         sustained_incline_target |->
             _clamp(RMul(demands.average_grade_pct,
                         IF total_weeks >= 8 THEN Q(8, 10) ELSE Q(7, 10)), R(2), R(12)),
         weekly_volume_target |->
             RoundProduct(R(demands.estimated_duration_minutes), volume_multiplier)]

_build_long_session_target(baseline_minutes, peak_long_target, week_number, total_weeks, is_adaptation_week) ==
    IF is_adaptation_week
    THEN _clamp(RMul(R(peak_long_target), Q(25, 100)), R(15), R(30))
    ELSE LET peak_week == IMax(total_weeks - 1, 1)
             progress == RMin(Q(week_number, peak_week), R(1))
             baseline_long == RMax(R(20), RMul(R(baseline_minutes), Q(4, 10)))
         IN  R(Round(RAdd(baseline_long,
                          RMul(RSub(R(peak_long_target), baseline_long), progress))))

_build_week_incline_cap(peak_incline_target, week_number, total_weeks, is_adaptation_week, max_incline) ==
    IF is_adaptation_week THEN RMin(R(max_incline), R(3))
    ELSE LET peak_week == IMax(total_weeks - 1, 1)
             progress == RMin(Q(week_number, peak_week), R(1))
             base == R(3)
             target == RAdd(base, RMul(RSub(peak_incline_target, base), progress))
         IN  RMin(R(max_incline), RMax(base, target))

_get_min_prep_weeks(distance_miles, elevation_gain_ft) ==
    IF RLe(distance_miles, R(5)) /\ RLe(elevation_gain_ft, R(1000)) THEN 4
    ELSE IF RLe(distance_miles, R(8)) \/ RLe(elevation_gain_ft, R(3000)) THEN 6
    ELSE IF RGe(distance_miles, R(12)) \/ RGe(elevation_gain_ft, R(4500)) THEN 12
    ELSE 8

------------------------------------------------------------------------------
(* Week texts and strength add-ons *)

_week_notes(is_adaptation, week_number, total_weeks) ==
    IF is_adaptation /\ week_number <= 2
    THEN "Adaptation week: focus on consistency and easy effort."
    ELSE IF week_number = total_weeks
    THEN "Taper week: reduce volume, keep a little intensity."
    ELSE IF week_number % 4 = 0
    THEN "Deload week: reduce volume and focus on recovery."
    ELSE "Build week: small volume increase."

_week_focus_line(is_adaptation, week_number, total_weeks) ==
    IF is_adaptation /\ week_number <= 2 THEN "Adaptation: building consistency"
    ELSE IF week_number = total_weeks THEN "Taper: reduce volume, stay sharp"
    ELSE IF week_number % 4 = 0 THEN "Deload: emphasize recovery"
    ELSE IF week_number = total_weeks - 1 THEN "Peak: hike-specific endurance"
    ELSE "Build: increasing time-on-feet"

_get_strength_phase(is_adaptation, week_number, total_weeks) ==
    IF week_number = total_weeks THEN "light mobility for recovery"
    ELSE IF is_adaptation /\ week_number <= 2 THEN "movement prep & injury prevention"
    ELSE IF week_number = total_weeks - 1 THEN "maintenance strength"
    ELSE "leg strength + core"

_strength_notes_for_phase(phase) ==
    IF PhaseHas("mobility", phase) THEN "Movement prep & injury prevention. Intensity: light."
    ELSE IF PhaseHas("maintenance", phase)
    THEN "Maintain strength, avoid fatigue. Intensity: moderate."
    ELSE IF PhaseHas("recovery", phase) THEN "Strength reduced for recovery. Intensity: light."
    ELSE "Strength to support climbing endurance. Intensity: moderate."

CardioTypes == {"Outdoor long hike", "Treadmill intervals", "Zone 2 incline walk"}

IsCardioDay(day) == \E k \in 1..Len(day.workouts) : day.workouts[k].type \in CardioTypes

\* how many of days[1..k] are cardio days
RECURSIVE CardioRank(_, _)
CardioRank(days, k) ==
    IF k = 0 THEN 0 ELSE CardioRank(days, k - 1) + (IF IsCardioDay(days[k]) THEN 1 ELSE 0)

\* _attach_strength_addons without the limit of 2 of lines 833-836
_attach_strength_addons_uncapped(days, count, phase, training_days_per_week, week_volume, is_event_prep_week) ==
    LET cardio_days == CardioRank(days, Len(days))
        remaining == IF training_days_per_week <= 2 THEN cardio_days
                     ELSE IMin(count, cardio_days)
        addon(day) ==
            [id |-> <<day.date, "-strength-addon">>,
             type |-> "Strength",
             durationMinutes |->
                 R(_strength_duration_for_week(week_volume, phase, is_event_prep_week)),
             notes |-> <<_strength_notes_for_phase(phase),
                         " Do strength first, then cardio 6+ hours later.">>]
    IN  [k \in 1..Len(days) |->
            IF IsCardioDay(days[k]) /\ CardioRank(days, k) <= remaining
            THEN [days[k] EXCEPT !.workouts = <<addon(days[k])>> \o @]
            ELSE days[k]]

\* days after the in-place inserts of _attach_strength_addons
_attach_strength_addons(days, count, phase, training_days_per_week, week_volume, is_event_prep_week) ==
    LET cardio_days == CardioRank(days, Len(days))
        remaining == IF training_days_per_week <= 2 THEN IMin(2, cardio_days)
                     ELSE IMin(IMin(count, 2), cardio_days)
        addon(day) ==
            [id |-> <<day.date, "-strength-addon">>,
             type |-> "Strength",
             durationMinutes |->
                 R(_strength_duration_for_week(week_volume, phase, is_event_prep_week)),
             notes |-> <<_strength_notes_for_phase(phase),
                         " Do strength first, then cardio 6+ hours later.">>]
    IN  [k \in 1..Len(days) |->
            IF IsCardioDay(days[k]) /\ CardioRank(days, k) <= remaining
            THEN [days[k] EXCEPT !.workouts = <<addon(days[k])>> \o @]
            ELSE days[k]]

_is_high_intensity_day(day) ==
    \E k \in 1..Len(day.workouts) :
        day.workouts[k].type \in {"Outdoor long hike", "Treadmill intervals"}

_has_consecutive_high_intensity_days(days) ==
    \E i \in 1..(Len(days) - 1) :
        _is_high_intensity_day(days[i]) /\ _is_high_intensity_day(days[i + 1])

------------------------------------------------------------------------------
(* Plan Assembler *)

\* the week count without the target day itself
TotalWeeks_exclusive(start_date, target_date) == IMax(1, (target_date - start_date + 6) \div 7)

\* max(1, ((target_date - start_date).days + 1 + 6) // 7)
TotalWeeks(start_date, target_date) == IMax(1, (target_date - start_date + 1 + 6) \div 7)

LessThanTwoWeeks ==
    "Less than two weeks to your target date. Keep sessions short and stay fresh."
AmbitiousPlan == "Ambitious plan: recommended only if you already train consistently."
SessionsExceedDays == "Cardio + strength sessions cannot exceed training days."
StackedSessions ==
    "Stacked sessions create consecutive high-intensity days. Consider reducing sessions or extending your timeline."

\* the f-string with min_prep_weeks, which is 4, 6, 8 or 12
MinPrepWarning(min_prep_weeks) ==
    CASE min_prep_weeks = 4 ->
           "This hike typically requires at least 4 weeks of preparation. Your plan may not fully prepare you."
      [] min_prep_weeks = 6 ->
           "This hike typically requires at least 6 weeks of preparation. Your plan may not fully prepare you."
      [] min_prep_weeks = 8 ->
           "This hike typically requires at least 8 weeks of preparation. Your plan may not fully prepare you."
      [] min_prep_weeks = 12 ->
           "This hike typically requires at least 12 weeks of preparation. Your plan may not fully prepare you."

\* warnings: List[str] = [] with the list of the call before still in it
InitialWarnings_carried == IF warnings = None THEN <<>> ELSE warnings

\* warnings: List[str] = []
InitialWarnings == <<>>

\* lines 71-110 of _build_plan, the dates parsed to start_date and target_date
PlanLocals(start_date, target_date) ==
    LET total_weeks == TotalWeeks(start_date, target_date)
        adjusted_baseline == inputs.baseline_minutes
        Locals(hike_demands, peak_targets, week_volumes) ==
            [start_date |-> start_date,
             target_date |-> target_date,
             total_weeks |-> total_weeks,
             hike_demands |-> hike_demands,
             min_prep_weeks |-> _get_min_prep_weeks(inputs.hike.distance_miles,
                                                    inputs.hike.elevation_gain_ft),
             peak_targets |-> peak_targets,
             adjusted_baseline |-> adjusted_baseline,
             week_volumes |-> week_volumes,
             picked_days |-> _pick_training_days(inputs.days_per_week,
                                                 inputs.preferred_days, inputs.any_days),
             average_weekly_minutes |->
                 RDiv(R(SeqSum(week_volumes)), R(IMax(Len(week_volumes), 1))),
             peak_week_index |-> IF total_weeks > 1 THEN IMax(total_weeks - 2, 0) ELSE 0]
        \* adjusted_weekly_target = peak_targets["weekly_volume_target"]
        WithVolumes(hike_demands, peak_targets) ==
            Locals(hike_demands, peak_targets,
                   _build_weekly_volumes(adjusted_baseline, total_weeks,
                                         peak_targets.weekly_volume_target))
        WithTargets(hike_demands) ==
            WithVolumes(hike_demands, _build_peak_targets(hike_demands, total_weeks))
    IN  WithTargets(_derive_hike_demands(inputs.hike))

\* the warnings list when the loop starts
StartWarnings(locals) ==
    InitialWarnings
    \o (IF locals.total_weeks < 2 THEN <<LessThanTwoWeeks>> ELSE <<>>)
    \o (IF locals.total_weeks < locals.min_prep_weeks
        THEN <<MinPrepWarning(locals.min_prep_weeks)>> ELSE <<>>)
    \o (IF inputs.baseline_minutes <= 30
           /\ inputs.constraints.treadmill_sessions_per_week
              + inputs.constraints.outdoor_hikes_per_week >= inputs.days_per_week
        THEN <<AmbitiousPlan>> ELSE <<>>)

StartPlan ==
    /\ pc = "call"
    /\ \E start \in {_parse_local_date(inputs.training_start_date)} :
       \E target \in {_parse_local_date(inputs.target_date)} :
           IF start.raised # None \/ target.raised # None
           THEN /\ pc' = "raised"
                /\ returned' = ValueError
                /\ UNCHANGED <<plan, week_index, warnings, weeks, last_long_hike_minutes>>
           ELSE \E locals \in {PlanLocals(_to_start_of_day(start.value),
                                          _to_start_of_day(target.value))} :
                    /\ pc' = "loop"
                    /\ plan' = locals
                    /\ warnings' = StartWarnings(locals)
                    /\ last_long_hike_minutes' =
                           R(RoundProduct(R(locals.adjusted_baseline), Q(4, 10)))
                    /\ weeks' = <<>>
                    /\ week_index' = 0
                    /\ UNCHANGED returned
    /\ UNCHANGED <<inputs, calls, prior, sessionVars, volumeVars, placeVars>>
\* the condition of lines 130-139 with the strength count left out
SessionsChanged_cardio_only(sessions_, requested_strength) ==
    \/ sessions_.treadmill_sessions_per_week # inputs.constraints.treadmill_sessions_per_week
    \/ sessions_.outdoor_hikes_per_week # inputs.constraints.outdoor_hikes_per_week

\* a reconciled count differs from the requested one
SessionsChanged(sessions_, requested_strength) ==
    \/ sessions_.treadmill_sessions_per_week # inputs.constraints.treadmill_sessions_per_week
    \/ sessions_.outdoor_hikes_per_week # inputs.constraints.outdoor_hikes_per_week
    \/ sessions_.strength_sessions_per_week # requested_strength

\* what one pass of the loop over the weeks computes before it builds the days
\* (lines 113-195); ix is the 0-based loop index
WeekContext(ix) ==
    LET week_volume == plan.week_volumes[ix + 1]
        week_start == plan.start_date + ix * 7
        week_end == week_start + 6
        is_adaptation_week == inputs.baseline_minutes <= 30 /\ ix < 2
        requested_strength ==
            IF inputs.include_strength THEN inputs.strength_sessions_per_week ELSE 0
        weeks_until_event == plan.total_weeks - (ix + 1)
        is_event_prep_week == weeks_until_event <= 1
        RequiredSessions(sessions_) ==
            sessions_.treadmill_sessions_per_week + sessions_.outdoor_hikes_per_week
            + (IF inputs.include_strength /\ ~inputs.strength_on_cardio_days
               THEN sessions_.strength_sessions_per_week ELSE 0)
        Context(sessions_, week_incline_cap) ==
            [week_number |-> ix + 1,
             week_volume |-> week_volume,
             week_start |-> week_start,
             week_end |-> week_end,
             is_adaptation_week |-> is_adaptation_week,
             week_note_text |-> _week_notes(is_adaptation_week, ix + 1, plan.total_weeks),
             week_focus |-> _week_focus_line(is_adaptation_week, ix + 1, plan.total_weeks),
             sessions |-> sessions_,
             sessions_changed |-> SessionsChanged(sessions_, requested_strength),
             is_event_prep_week |-> is_event_prep_week,
             strength_phase |-> _get_strength_phase(is_adaptation_week, ix + 1,
                                                    plan.total_weeks),
             workouts_for_week |->
                 _build_week_workouts(ix + 1, plan.total_weeks, week_volume,
                     inputs.days_per_week, sessions_.treadmill_sessions_per_week,
                     sessions_.outdoor_hikes_per_week, sessions_.strength_sessions_per_week,
                     inputs.include_strength, inputs.strength_on_cardio_days,
                     is_event_prep_week, inputs.fill_active_recovery_days),
             long_session_target |->
                 _build_long_session_target(inputs.baseline_minutes,
                     plan.peak_targets.long_session_target, ix + 1, plan.total_weeks,
                     is_adaptation_week),
             week_incline_cap |-> week_incline_cap,
             adjusted_incline_cap |->
                 _clamp(week_incline_cap, R(0),
                        R(inputs.constraints.treadmill_max_incline_percent)),
             scheduled_days |->
                 _schedule_week_days(week_start, week_end, inputs.days_per_week,
                     inputs.preferred_days, inputs.any_days, RequiredSessions(sessions_))]
    IN  Context(_enforce_session_invariant(inputs.days_per_week,
                    inputs.constraints.treadmill_sessions_per_week,
                    inputs.constraints.outdoor_hikes_per_week, requested_strength,
                    inputs.strength_on_cardio_days),
                _build_week_incline_cap(plan.peak_targets.sustained_incline_target, ix + 1,
                    plan.total_weeks, is_adaptation_week,
                    inputs.constraints.treadmill_max_incline_percent))

\* the loop over scheduled_days["days"] (lines 199-235), from position on (0-based);
\* gives the days list and the running long_hike_minutes
RECURSIVE DaysLoop(_, _, _, _)
DaysLoop(position, days, long_hike_minutes, c) ==
    IF position >= Len(c.scheduled_days.days)
    THEN [days |-> days, last_long_hike_minutes |-> long_hike_minutes]
    ELSE LET day_date == c.scheduled_days.days[position + 1]
             workout_type == IF position < Len(c.workouts_for_week)
                             THEN c.workouts_for_week[position + 1]
                             ELSE "Rest day"
             is_long_session ==
                 \/ workout_type = "Outdoor long hike"
                 \/ /\ workout_type = "Zone 2 incline walk"
                    /\ c.sessions.outdoor_hikes_per_week = 0
                    /\ position = 0
             Rest(workout) ==
                 DaysLoop(position + 1,
                          Append(days, [date |-> _to_iso_date(day_date),
                                        dayName |-> _day_name(day_date),
                                        workouts |-> <<workout>>]),
                          IF workout.type = "Outdoor long hike" THEN workout.durationMinutes
                          ELSE long_hike_minutes,
                          c)
         IN  Rest(_build_workout(c.week_number, workout_type, c.week_volume,
                      inputs.fitness_level, inputs.hike, inputs.constraints,
                      long_hike_minutes, c.week_number = plan.total_weeks,
                      c.week_number % 4 = 0, c.is_adaptation_week,
                      c.strength_phase, c.long_session_target,
                      c.adjusted_incline_cap, is_long_session,
                      c.is_event_prep_week))

\* lines 237-253: the days after the strength add-ons, if any, are attached
WithStrengthAddons(days, c) ==
    IF inputs.include_strength /\ inputs.strength_on_cardio_days
    THEN LET strength_count == c.sessions.strength_sessions_per_week
             cardio_count == c.sessions.treadmill_sessions_per_week
                             + c.sessions.outdoor_hikes_per_week
         IN  IF strength_count > 0 /\ cardio_count > 0
             THEN _attach_strength_addons(days, IMin(strength_count, cardio_count),
                      c.strength_phase, inputs.days_per_week, c.week_volume,
                      c.is_event_prep_week)
             ELSE days
    ELSE days

\* the durationMinutes of every workout of every day, in order
RECURSIVE AllDurations(_, _)
AllDurations(days, k) ==
    IF k > Len(days) THEN <<>>
    ELSE [w \in 1..Len(days[k].workouts) |-> days[k].workouts[w].durationMinutes]
         \o AllDurations(days, k + 1)

\* lines 269-292: the notes of the week, kept as the parts the f-strings join:
\* the week's text, whether the sentence on unreached demands follows, the
\* delta of the volume sentence (0: no sentence), the strength phase (None: no
\* sentence)
FinalNotes(ix, c, days, total_minutes) ==
    LET estimated == plan.hike_demands.estimated_duration_minutes
        \* peak_long_session = max(w["durationMinutes"] ...) against 0.7 * estimated
        MeetsLong(durations) ==
            RGe(RSeqMax(durations, durations[1]), R(RoundProduct(R(estimated), Q(7, 10))))
        meets_volume == RGe(total_minutes, R(RoundProduct(R(estimated), Q(15, 10))))
        meets_incline == RGe(c.week_incline_cap,
                             RMul(plan.hike_demands.average_grade_pct, Q(6, 10)))
        Delta(prev_volume) ==
            IF ix > 0 /\ prev_volume # 0
            THEN Round(RMul(Q(c.week_volume - prev_volume, prev_volume), R(100)))
            ELSE 0
    IN  [text |-> c.week_note_text,
         unreached |-> /\ ix = plan.peak_week_index
                       /\ (~MeetsLong(AllDurations(days, 1)) \/ ~meets_volume
                           \/ ~meets_incline),
         delta |-> Delta(IF ix > 0 THEN plan.week_volumes[ix] ELSE 0),
         strength_focus |-> IF inputs.include_strength THEN c.strength_phase ELSE None]

\* one pass of the loop over the weeks (lines 112-304)
BuildWeek ==
    /\ pc = "loop"
    /\ week_index < Len(plan.week_volumes)
    /\ \E c \in {WeekContext(week_index)} :
           IF c.scheduled_days.raised # None
           THEN \* the division of line 764
                /\ pc' = "raised"
                /\ returned' = c.scheduled_days
                /\ UNCHANGED <<week_index, warnings, weeks, last_long_hike_minutes>>
           ELSE \E built \in {DaysLoop(0, <<>>, last_long_hike_minutes, c)} :
                \E days \in {WithStrengthAddons(built.days, c)} :
                \E total_minutes \in {RSum(AllDurations(days, 1))} :
                    IF week_index = plan.peak_week_index /\ AllDurations(days, 1) = <<>>
                    THEN \* max() of an empty sequence, line 271
                         /\ pc' = "raised"
                         /\ returned' = ValueError
                         /\ UNCHANGED <<week_index, warnings, weeks,
                                        last_long_hike_minutes>>
                    ELSE /\ warnings' =
                                warnings
                                \o (IF c.sessions_changed THEN <<SessionsExceedDays>>
                                    ELSE <<>>)
                                \o (IF c.scheduled_days.warning # None
                                    THEN <<c.scheduled_days.warning>> ELSE <<>>)
                                \o (IF /\ inputs.include_strength
                                       /\ inputs.strength_on_cardio_days
                                       /\ c.sessions.strength_sessions_per_week > 0
                                       /\ _has_consecutive_high_intensity_days(days)
                                    THEN <<StackedSessions>> ELSE <<>>)
                         /\ last_long_hike_minutes' = built.last_long_hike_minutes
                         /\ weeks' = Append(weeks,
                                [weekNumber |-> week_index + 1,
                                 startDate |-> _to_iso_date(c.week_start),
                                 endDate |-> _to_iso_date(c.week_end),
                                 totalMinutes |-> total_minutes,
                                 notes |-> FinalNotes(week_index, c, days, total_minutes),
                                 focus |-> c.week_focus,
                                 days |-> days])
                         /\ week_index' = week_index + 1
                         /\ UNCHANGED <<pc, returned>>
    /\ UNCHANGED <<inputs, plan, calls, prior, sessionVars, volumeVars, placeVars>>

\* lines 306-315
ReturnPlan ==
    /\ pc = "loop"
    /\ week_index >= Len(plan.week_volumes)
    /\ pc' = "done"
    /\ returned' = [totalWeeks |-> plan.total_weeks,
                    warnings |-> warnings,
                    summary |-> [daysPerWeek |-> inputs.days_per_week,
                                 preferredDays |-> plan.picked_days,
                                 averageWeeklyMinutes |-> Round(plan.average_weekly_minutes)],
                    weeks |-> weeks]
    /\ UNCHANGED <<inputs, plan, week_index, warnings, weeks, last_long_hike_minutes, calls,
                   prior, sessionVars, volumeVars, placeVars>>

\* build_training_plan is called once more with the same payload and hike
CallAgain ==
    /\ pc \in {"done", "raised"}
    /\ calls < MaxCalls
    /\ pc' = "call"
    /\ calls' = calls + 1
    /\ prior' = returned
    /\ UNCHANGED <<inputs, plan, week_index, warnings, weeks, last_long_hike_minutes,
                   returned, sessionVars, volumeVars, placeVars>>

Next == StartPlan \/ BuildWeek \/ ReturnPlan \/ CallAgain

------------------------------------------------------------------------------
(* The calls of build_training_plan that are checked *)

ProfilePoint(distance_miles, elevation_ft) ==
    [distance_miles |-> distance_miles, elevation_ft |-> elevation_ft]

\* n points a quarter mile apart that climb in a saw-tooth
SawProfile(n) ==
    [i \in 1..n |->
        ProfilePoint(Q(i - 1, 4), R(1000 + 132 * ((i - 1) % 3) + 66 * ((i - 1) \div 3)))]

NoProfile == <<>>
OnePointProfile == <<ProfilePoint(R(0), R(100))>>
ShortProfile ==
    <<ProfilePoint(R(0), R(1000)), ProfilePoint(R(1), R(1528)),
      ProfilePoint(R(2), R(1264)), ProfilePoint(R(3), R(2056))>>

Date(day) == [fmt |-> "YYYY-MM-DD", day |-> day]
Stamp(day) == [fmt |-> "ISO-stamp", day |-> day]
Malformed == [fmt |-> "text", day |-> 0]

\* a request for a six-mile hike without profile points, three weeks ahead
BaseInputs ==
    [hike |-> [distance_miles |-> R(6), elevation_gain_ft |-> R(2000),
               profile_points |-> NoProfile],
     fitness_level |-> "Beginner",
     training_start_date |-> Date(0),
     target_date |-> Date(20),
     days_per_week |-> 3,
     preferred_days |-> <<>>,
     any_days |-> TRUE,
     baseline_minutes |-> 30,
     constraints |-> [treadmill_max_incline_percent |-> 10,
                      treadmill_sessions_per_week |-> 2,
                      outdoor_hikes_per_week |-> 1,
                      max_speed_mph |-> R(4)],
     strength_sessions_per_week |-> 1,
     include_strength |-> TRUE,
     strength_on_cardio_days |-> FALSE,
     fill_active_recovery_days |-> FALSE]

\* start and target dates: the target before, on and after the start, spans on
\* both sides of a multiple of seven days, both accepted formats and a rejected one
DateCases ==
    {<<Date(s), Date(s + d)>> :
        s \in {0, 3}, d \in {-3, 0, 5, 6, 7, 13, 14, 20, 21, 7 * MaxWeeks - 1}}
    \cup {<<Stamp(0), Date(13)>>, <<Date(2), Stamp(16)>>, <<Malformed, Date(13)>>,
          <<Date(0), Malformed>>}

DateInputs ==
    {[BaseInputs EXCEPT !.training_start_date = dc[1], !.target_date = dc[2],
                        !.baseline_minutes = b] :
        dc \in DateCases, b \in {30, 60}}

\* the weekly request: days_per_week from -1 up, session counts from 0 up, any
\* days or preferred days, strength on its own days or on cardio days
RequestInputs ==
    {[BaseInputs EXCEPT !.target_date = Date(27),
                        !.days_per_week = d,
                        !.constraints.treadmill_sessions_per_week = c[1],
                        !.constraints.outdoor_hikes_per_week = c[2],
                        !.strength_sessions_per_week = c[3],
                        !.any_days = p[1],
                        !.preferred_days = p[2],
                        !.strength_on_cardio_days = on_cardio] :
        d \in (-1)..MaxDaysPerWeek,
        c \in {<<2, 1, 1>>, <<1, 0, 2>>, <<0, 0, 0>>, <<MaxSessions, 2, 0>>},
        p \in {<<TRUE, <<>>>>, <<FALSE, <<1, 3, 5>>>>, <<FALSE, <<3>>>>},
        on_cardio \in BOOLEAN}

Init ==
    /\ pc = "call"
    /\ inputs \in DateInputs \cup RequestInputs
    /\ plan = None /\ week_index = None /\ warnings = None /\ weeks = None
    /\ last_long_hike_minutes = None /\ returned = None
    /\ calls = 1
    /\ prior = None
    /\ NoSessionCall
    /\ NoVolumeCall
    /\ NoPlaceCall

Spec == Init /\ [][Next]_vars

\* hikes with no, one, a few and many profile points under small and large
\* treadmill limits
TerrainInputs ==
    {[BaseInputs EXCEPT !.hike.profile_points = pr,
                        !.fitness_level = f,
                        !.baseline_minutes = b,
                        !.constraints.treadmill_max_incline_percent = mi,
                        !.constraints.max_speed_mph = ms,
                        !.constraints.treadmill_sessions_per_week = 3,
                        !.constraints.outdoor_hikes_per_week = 0,
                        !.strength_sessions_per_week = 0] :
        pr \in {NoProfile, OnePointProfile, ShortProfile, SawProfile(12), SawProfile(40)},
        f \in {"Beginner", "Advanced"},
        b \in {30, 45},
        mi \in {0, 1, 10},
        ms \in {Q(15, 4), R(4)}}

InitTerrain ==
    /\ pc = "call"
    /\ inputs \in TerrainInputs
    /\ plan = None /\ week_index = None /\ warnings = None /\ weeks = None
    /\ last_long_hike_minutes = None /\ returned = None
    /\ calls = 1
    /\ prior = None
    /\ NoSessionCall
    /\ NoVolumeCall
    /\ NoPlaceCall

NextOnce == StartPlan \/ BuildWeek \/ ReturnPlan

SpecTerrain == InitTerrain /\ [][NextOnce]_vars

\* hikes of several lengths and climbs, with and without a profile, for plans of
\* one to six weeks, with every split of three weekly sessions between treadmill
\* and outdoor, strength on its own days or on cardio days
HikeInputs ==
    {[BaseInputs EXCEPT !.hike.distance_miles = h[1],
                        !.hike.elevation_gain_ft = h[2],
                        !.hike.profile_points = h[3],
                        !.target_date = Date(7 * n - 1),
                        !.baseline_minutes = b,
                        !.constraints.treadmill_sessions_per_week = c[1],
                        !.constraints.outdoor_hikes_per_week = c[2],
                        !.strength_sessions_per_week = c[3],
                        !.strength_on_cardio_days = on_cardio] :
        h \in {<<R(6), R(0), NoProfile>>, <<R(6), R(2000), NoProfile>>,
               <<R(4), R(500), NoProfile>>, <<R(3), R(1056), ShortProfile>>},
        n \in {1, 2, 4, 6},
        b \in {30, 60},
        c \in {<<2, 1, 1>>, <<3, 0, 0>>, <<2, 0, 1>>, <<1, 2, 0>>, <<0, 3, 1>>,
               <<0, 0, 2>>, <<2, 1, MaxSessions>>},
        on_cardio \in BOOLEAN}

InitHikes ==
    /\ pc = "call"
    /\ inputs \in HikeInputs
    /\ plan = None /\ week_index = None /\ warnings = None /\ weeks = None
    /\ last_long_hike_minutes = None /\ returned = None
    /\ calls = 1
    /\ prior = None
    /\ NoSessionCall
    /\ NoVolumeCall
    /\ NoPlaceCall

SpecHikes == InitHikes /\ [][NextOnce]_vars

\* one to seven training days a week in any-days and in preferred-days mode, with
\* preferred lists that hold one, several, all, repeated and out-of-range indices,
\* starts on a Monday and on a Thursday, a target on a week's last day and inside
\* a week, and session counts below and above what the preferred days offer
ScheduleInputs ==
    {[BaseInputs EXCEPT !.training_start_date = Date(dt[1]),
                        !.target_date = Date(dt[2]),
                        !.days_per_week = d,
                        !.constraints.treadmill_sessions_per_week = c[1],
                        !.constraints.outdoor_hikes_per_week = c[2],
                        !.strength_sessions_per_week = c[3],
                        !.any_days = p[1],
                        !.preferred_days = p[2],
                        !.strength_on_cardio_days = on_cardio] :
        dt \in {<<0, 13>>, <<3, 12>>, <<0, 16>>},
        d \in 1..7,
        c \in {<<1, 0, 0>>, <<2, 1, 0>>, <<2, 1, 2>>},
        p \in {<<TRUE, <<>>>>, <<TRUE, <<1, 3>>>>, <<FALSE, <<>>>>, <<FALSE, <<7, -1>>>>,
               <<FALSE, <<3>>>>, <<FALSE, <<1, 3, 5>>>>, <<FALSE, <<6, 0, 6>>>>,
               <<FALSE, <<5, 2, 4, 1>>>>, <<FALSE, <<0, 1, 2, 3, 4, 5, 6>>>>},
        on_cardio \in BOOLEAN}

InitSchedule ==
    /\ pc = "call"
    /\ inputs \in ScheduleInputs
    /\ plan = None /\ week_index = None /\ warnings = None /\ weeks = None
    /\ last_long_hike_minutes = None /\ returned = None
    /\ calls = 1
    /\ prior = None
    /\ NoSessionCall
    /\ NoVolumeCall
    /\ NoPlaceCall

SpecSchedule == InitSchedule /\ [][NextOnce]_vars

------------------------------------------------------------------------------
(* Properties of the returned plan *)

TreadmillTypes == {"Treadmill intervals", "Zone 2 incline walk"}

\* P holds of every workout of every day of every week of the returned plan
EveryWorkout(P(_)) ==
    \A w \in 1..Len(returned.weeks) :
        \A d \in 1..Len(returned.weeks[w].days) :
            \A o \in 1..Len(returned.weeks[w].days[d].workouts) :
                P(returned.weeks[w].days[d].workouts[o])

HasSegments(workout) == "segments" \in DOMAIN workout

Returned == pc = "done"

\* ceil(n / 7)
CeilWeeks(n) == -((-n) \div 7)

\* C1: for parseable start and target dates the returned totalWeeks is
\* max(1, ceil((targetDate - startDate + 1 day) / 7)), the weeks list has exactly
\* totalWeeks entries numbered 1..totalWeeks, and week k runs from
\* startDate + 7(k-1) through startDate + 7(k-1) + 6.
C1_TotalWeeksAndWeekSpans ==
    Returned =>
        LET start == inputs.training_start_date.day
            target == inputs.target_date.day
            expected == IMax(1, CeilWeeks(target - start + 1))
        IN  /\ returned.totalWeeks = expected
            /\ Len(returned.weeks) = expected
            /\ \A k \in 1..Len(returned.weeks) :
                   /\ returned.weeks[k].weekNumber = k
                   /\ returned.weeks[k].startDate = Date(start + 7 * (k - 1))
                   /\ returned.weeks[k].endDate = Date(start + 7 * (k - 1) + 6)

\* a plan was returned for a target that is a whole number of weeks after the
\* start, so that the target day itself opens one more week
C1_Witness ==
    /\ Returned
    /\ (inputs.target_date.day - inputs.training_start_date.day) % 7 = 0
    /\ inputs.target_date.day > inputs.training_start_date.day
    /\ returned.totalWeeks >= 2
    /\ Len(returned.weeks) = returned.totalWeeks

BodySegmentCountInRange(workout) ==
    workout.type \in TreadmillTypes =>
        /\ Len(workout.segments) - 2 >= 10
        /\ Len(workout.segments) - 2 <= 30

\* C4: every treadmill-based workout (Treadmill intervals or Zone 2 incline
\* walk), for any hike profile, a profile of zero or one point included, has
\* between 10 and 30 body segments (all segments but the warm-up and the
\* cool-down).
C4_BodySegmentCount == Returned => EveryWorkout(BodySegmentCountInRange)

SegmentMinutesSum(workout) ==
    RSum([i \in 1..Len(workout.segments) |-> workout.segments[i].minutes])

SegmentMinutesMatchDuration(workout) ==
    HasSegments(workout) =>
        RLe(RAbs(RSub(SegmentMinutesSum(workout), workout.durationMinutes)), Q(1, 2))

\* C5: for every workout that carries segments, the sum of all segment minutes
\* (warm-up, body, cool-down) is within half a minute of the workout's
\* durationMinutes.
C5_SegmentMinutesSum == Returned => EveryWorkout(SegmentMinutesMatchDuration)

InclinesWithinMax(workout) ==
    LET max_incline == R(inputs.constraints.treadmill_max_incline_percent)
    IN  /\ HasSegments(workout) =>
               \A i \in 1..Len(workout.segments) :
                   /\ RGe(workout.segments[i].inclinePct, R(0))
                   /\ RLe(workout.segments[i].inclinePct, max_incline)
        /\ "inclineTarget" \in DOMAIN workout =>
               /\ RGe(workout.inclineTarget, R(0))
               /\ RLe(workout.inclineTarget, max_incline)

\* C6: every incline of the returned plan, each segment's inclinePct and each
\* Zone 2 workout's inclineTarget, lies in [0, treadmill_max_incline_percent],
\* for every caller max incline >= 0 and every hike profile.
C6_InclineWithinCallerMax ==
    Returned /\ inputs.constraints.treadmill_max_incline_percent >= 0
        => EveryWorkout(InclinesWithinMax)

SpeedsWithinMax(workout) ==
    HasSegments(workout) =>
        \A i \in 1..Len(workout.segments) :
            /\ RGe(workout.segments[i].speedMph, R(0))
            /\ RLe(workout.segments[i].speedMph, inputs.constraints.max_speed_mph)

\* C7: every speedMph of the returned plan lies in [0, max_speed_mph], for every
\* caller max speed and fitness level.
C7_SpeedWithinCallerMax == Returned => EveryWorkout(SpeedsWithinMax)

AcceptedDate(value) == value.fmt \in {"YYYY-MM-DD", "ISO-stamp"}

\* C10: build_training_plan raises only when a date string cannot be parsed;
\* with parseable dates it returns a plan whatever the integers days_per_week and
\* the session counts are.
C10_RaisesOnlyOnMalformedDate ==
    pc = "raised" =>
        ~AcceptedDate(inputs.training_start_date) \/ ~AcceptedDate(inputs.target_date)

\* preferred-days mode: any_days is false and there are preferred days in 0..6
PreferredMode == ~inputs.any_days /\ Len(SafePreferred(inputs.preferred_days)) > 0

\* the dates of the week with 0-based index ix, in order
WeekDatesOf(ix) == [i \in 1..7 |-> plan.start_date + 7 * ix + i - 1]

\* the dates of that week that the scheduler matches with a preferred day
OfferedPreferredDates(ix) ==
    FilterSeq(WeekDatesOf(ix), 1,
              {d \in (plan.start_date + 7 * ix)..(plan.start_date + 7 * ix + 6) :
                  InSeq(ScheduleWeekday(d), inputs.preferred_days)})

\* requiredSessions: the reconciled treadmill and outdoor sessions, and the
\* strength sessions when they take days of their own
RequiredSessionsOfRequest ==
    LET Required(reconciled) ==
            reconciled.treadmill_sessions_per_week + reconciled.outdoor_hikes_per_week
            + (IF inputs.include_strength /\ ~inputs.strength_on_cardio_days
               THEN reconciled.strength_sessions_per_week ELSE 0)
    IN  Required(_enforce_session_invariant(inputs.days_per_week,
                     inputs.constraints.treadmill_sessions_per_week,
                     inputs.constraints.outdoor_hikes_per_week,
                     IF inputs.include_strength THEN inputs.strength_sessions_per_week
                     ELSE 0,
                     inputs.strength_on_cardio_days))

\* the dates of the days of a week of the plan
DatesOfWeek(week) == [i \in 1..Len(week.days) |-> week.days[i].date]

\* the step that appends a week in preferred-days mode
C11_WeekStep ==
    pc = "loop" /\ pc' = "loop" /\ PreferredMode =>
        LET offered == OfferedPreferredDates(week_index)
            dates == DatesOfWeek(weeks'[Len(weeks')])
            added == SubSeq(warnings', Len(warnings) + 1, Len(warnings'))
        IN  IF Len(offered) < RequiredSessionsOfRequest
            THEN /\ dates = [i \in 1..Len(offered) |-> _to_iso_date(offered[i])]
                 /\ Len(dates) < inputs.days_per_week
                 /\ InSeq(NotEnoughPreferredDays, added)
            ELSE ~InSeq(NotEnoughPreferredDays, added)

\* C11: in preferred-days mode, a week that offers fewer preferred-weekday dates
\* than requiredSessions gets exactly those dates (fewer than daysPerWeek, no
\* top-up) and the 'Not enough preferred days' warning is appended to the plan
\* warnings in that week's pass; a week that offers at least requiredSessions
\* such dates appends no such warning.
C11_PreferredShortfallWarning == [][C11_WeekStep]_vars

\* a week was built from one preferred date for three required sessions, and the
\* warning is in the list
C11_Witness ==
    /\ pc \in {"loop", "done"}
    /\ PreferredMode
    /\ Len(weeks) >= 1
    /\ Len(weeks[1].days) = 1
    /\ RequiredSessionsOfRequest = 3
    /\ InSeq(NotEnoughPreferredDays, warnings)

\* the dates the first loop of the scheduler collects in the week with 0-based
\* index ix
CollectedPreferredDates(ix) ==
    CollectPreferred(WeekDatesOf(ix), 1, <<>>, SafePreferred(inputs.preferred_days),
                     inputs.days_per_week)

\* C12: preferred days are indexed 0=Mon..6=Sun: in preferred-days mode every
\* date of the plan that was collected as a preferred date has a weekday, in
\* the indexing that gives dayName, that is one of the caller's preferred days
\* (for days_per_week >= 1).
C12_CollectedDatesArePreferredWeekdays ==
    pc \in {"loop", "done"} /\ PreferredMode /\ inputs.days_per_week >= 1 =>
        \A k \in 1..Len(weeks) :
            \A i \in 1..IMin(Len(CollectedPreferredDates(k - 1)), Len(weeks[k].days)) :
                /\ weeks[k].days[i].date = _to_iso_date(CollectedPreferredDates(k - 1)[i])
                /\ InSeq(Weekday(weeks[k].days[i].date.day), inputs.preferred_days)

WholeNonNegativeMinutes(workout) ==
    IsInt(workout.durationMinutes) /\ Num(workout.durationMinutes) >= 0

\* C13: every workout of the returned plan has a durationMinutes that is a
\* non-negative integer, and so every week's totalMinutes is an integer, for
\* every hike and baseline, adaptation weeks (long-session target 25% of the
\* peak target) included.
C13_WholeMinuteDurations ==
    Returned =>
        /\ EveryWorkout(WholeNonNegativeMinutes)
        /\ \A w \in 1..Len(returned.weeks) : IsInt(returned.weeks[w].totalMinutes)

\* C14: in a plan of two or more weeks the final (taper) week's volume is
\* round(0.55 * M), where M is the largest of the starting seed (45 if
\* baseline <= 30, else max(30, baseline)) and the volumes of all the weeks before
\* it, also when the weekly volume target is below the seed.
C14_TaperFromPeakOrSeed ==
    pc = "volumes_done" /\ vol_in.total_weeks >= 2 =>
        volumes[Len(volumes)] =
            RoundProduct(R(SeqMax(Append(SubSeq(volumes, 1, Len(volumes) - 1),
                                         VolumeSeed(vol_in.baseline_minutes)))),
                         Q(55, 100))

\* the durations of the Outdoor long hikes of a week of the plan
HikeMinutes(week) ==
    UNION {{week.days[d].workouts[o].durationMinutes :
               o \in {x \in 1..Len(week.days[d].workouts) :
                         week.days[d].workouts[x].type = "Outdoor long hike"}} :
           d \in 1..Len(week.days)}

\* the longest Outdoor long hike of a week that has one
LongestHike(week) ==
    CHOOSE m \in HikeMinutes(week) : \A x \in HikeMinutes(week) : RGe(m, x)

\* the longest Outdoor long hike of the latest of the weeks 1..k that has one,
\* and round(0.4 * baseline) when none has
RECURSIVE LongestHikeUpTo(_)
LongestHikeUpTo(k) ==
    IF k = 0 THEN R(RoundProduct(R(inputs.baseline_minutes), Q(4, 10)))
    ELSE IF HikeMinutes(returned.weeks[k]) # {} THEN LongestHike(returned.weeks[k])
    ELSE LongestHikeUpTo(k - 1)

\* C15: the longest Outdoor long hike of a week is at most 20 minutes above the
\* longest Outdoor long hike of the week before it (round(0.4 * baseline) before
\* the first hike), for every number of outdoor sessions per week, event-prep
\* weeks included.
C15_LongHikeGrowthAtMostTwenty ==
    Returned =>
        \A k \in 1..Len(returned.weeks) :
            HikeMinutes(returned.weeks[k]) # {} =>
                RLe(RSub(LongestHike(returned.weeks[k]), LongestHikeUpTo(k - 1)), R(20))

\* the durationMinutes of a Zone 2 incline walk that is built as a long session
\* in the week of context c: its target minutes are max(allocated duration, the
\* week's long-session target)
LongZone2Minutes(c) ==
    LET Built(duration) ==
            RMax(_clamp_duration(RMax(duration, c.long_session_target),
                                 inputs.fitness_level),
                 R(20))
        Allocated(allocations) ==
            IF c.is_adaptation_week THEN _clamp(R(allocations), R(15), R(25))
            ELSE R(allocations)
    IN  Built(Allocated(_allocate_durations(c.week_volume, "Zone 2 incline walk")))

\* the week has a Zone 2 incline walk of that length
HasLongZone2(week, minutes) ==
    \E d \in 1..Len(week.days) :
        \E o \in 1..Len(week.days[d].workouts) :
            /\ week.days[d].workouts[o].type = "Zone 2 incline walk"
            /\ week.days[d].workouts[o].durationMinutes = minutes

NeedsTreadmillLong(c, week) ==
    /\ ~c.is_event_prep_week
    /\ c.sessions.outdoor_hikes_per_week = 0
    /\ c.sessions.treadmill_sessions_per_week >= 1
    /\ Len(week.days) >= 1

\* C16: in every week that is not an event-prep week, whose reconciled outdoor
\* count is 0 and treadmill count at least 1, and that has a scheduled day, one
\* Zone 2 incline walk at least is built as a long session (target minutes
\* max(allocated duration, the week's long-session target)), whatever the
\* strength settings are.
C16_TreadmillLongSession ==
    Returned =>
        \A k \in 1..Len(returned.weeks) :
            \A c \in {WeekContext(k - 1)} :
                NeedsTreadmillLong(c, returned.weeks[k]) =>
                    HasLongZone2(returned.weeks[k], LongZone2Minutes(c))

\* the sentence of lines 278-281
UnreachedDemands ==
    "This plan does not fully reach hike-specific demands due to limited time or availability."

\* the durationMinutes of every workout of a week of the plan
WorkoutMinutes(week) ==
    UNION {{week.days[d].workouts[o].durationMinutes :
               o \in 1..Len(week.days[d].workouts)} : d \in 1..Len(week.days)}

\* the designated peak week of the returned plan has a longest session below
\* round(0.7 * estimated), or total minutes below round(1.5 * estimated), or an
\* incline cap below 0.6 * average grade
PeakWeekFallsShort ==
    LET week == returned.weeks[plan.peak_week_index + 1]
        estimated == R(plan.hike_demands.estimated_duration_minutes)
    IN  \/ \A m \in WorkoutMinutes(week) : RLt(m, R(RoundProduct(estimated, Q(7, 10))))
        \/ RLt(week.totalMinutes, R(RoundProduct(estimated, Q(15, 10))))
        \/ RLt(WeekContext(plan.peak_week_index).week_incline_cap,
               RMul(plan.hike_demands.average_grade_pct, Q(6, 10)))

\* how often x is in the sequence s
Occurrences(s, x) == Cardinality({i \in 1..Len(s) : s[i] = x})

\* C17: when the designated peak week (the second-to-last week, or week 1 of a
\* one-week plan) has a longest session below round(0.7 * estimated hike
\* minutes), or total minutes below round(1.5 * estimated hike minutes), or an
\* incline cap below 0.6 * average grade, the warnings of the plan contain a
\* warning about not reaching the hike's demands; no other week gives one.
C17_UnreachedDemandsWarning ==
    Returned =>
        /\ PeakWeekFallsShort => InSeq(UnreachedDemands, returned.warnings)
        /\ Occurrences(returned.warnings, UnreachedDemands) <= 1

\* a strength add-on of the day with that date
IsStrengthAddon(workout, date) ==
    workout.type = "Strength" /\ workout.id = <<date, "-strength-addon">>

\* after is before with an add-on put in front of the workouts of some cardio
\* days, two days at most, and nothing else changed
AddonsOnly(before, after) ==
    /\ Len(after) = Len(before)
    /\ \A d \in 1..Len(before) :
           /\ after[d].date = before[d].date
           /\ after[d].dayName = before[d].dayName
           /\ \/ after[d].workouts = before[d].workouts
              \/ /\ IsCardioDay(before[d])
                 /\ Len(after[d].workouts) = Len(before[d].workouts) + 1
                 /\ IsStrengthAddon(after[d].workouts[1], before[d].date)
                 /\ Tail(after[d].workouts) = before[d].workouts
    /\ Cardinality({d \in 1..Len(before) : after[d].workouts # before[d].workouts}) <= 2

\* the step that appends a week when strength goes on cardio days
C18_WeekStep ==
    pc = "loop" /\ pc' = "loop" /\ inputs.strength_on_cardio_days =>
        \E c \in {WeekContext(week_index)} :
            AddonsOnly(DaysLoop(0, <<>>, last_long_hike_minutes, c).days,
                       weeks'[Len(weeks')].days)

\* C18: when strength-on-cardio-days is set, strength add-ons go to at most 2
\* days of a week, only to days that already hold a cardio workout (Outdoor
\* long hike, Treadmill intervals or Zone 2 incline walk), each put before the
\* workouts the day already has; the number of days of the week and the workouts
\* they had are unchanged.
C18_StrengthAddonsFrame == [][C18_WeekStep]_vars

\* a week with three cardio days and three strength sessions asked for: two days
\* got an add-on in front of their cardio workout and the third did not
C18_Witness ==
    /\ pc \in {"loop", "done"}
    /\ inputs.strength_on_cardio_days
    /\ inputs.strength_sessions_per_week = 3
    /\ Len(weeks) >= 1
    /\ Len(weeks[1].days) = 3
    /\ Cardinality({d \in 1..3 : /\ Len(weeks[1].days[d].workouts) = 2
                                 /\ weeks[1].days[d].workouts[1].type = "Strength"
                                 /\ weeks[1].days[d].workouts[2].type \in CardioTypes}) = 2
    /\ \E d \in 1..3 : /\ Len(weeks[1].days[d].workouts) = 1
                       /\ weeks[1].days[d].workouts[1].type \in CardioTypes

\* the workouts of a week of the plan, as <<day, position>> pairs
WorkoutsOf(week) ==
    UNION {{<<d, o>> : o \in 1..Len(week.days[d].workouts)} : d \in 1..Len(week.days)}

\* how many workouts of the week have one of the types
CountOfTypes(week, types) ==
    Cardinality({x \in WorkoutsOf(week) : week.days[x[1]].workouts[x[2]].type \in types})

\* week k of the returned plan is the final week or the one before it
EventPrepWeek(k) == k >= Len(returned.weeks) - 1

\* C19: in every event-prep week (the final week and the second-to-last week,
\* week 1 of a one-week plan) no workout has type Treadmill intervals or Zone 2
\* incline walk: every reconciled treadmill session is scheduled as an Outdoor
\* long hike.
C19_EventPrepHasNoTreadmill ==
    Returned =>
        \A k \in 1..Len(returned.weeks) :
            EventPrepWeek(k) =>
                \E c \in {WeekContext(k - 1)} :
                    /\ CountOfTypes(returned.weeks[k], TreadmillTypes) = 0
                    /\ CountOfTypes(returned.weeks[k], {"Outdoor long hike"})
                           >= c.sessions.treadmill_sessions_per_week
                              + c.sessions.outdoor_hikes_per_week

\* a plan of six weeks with two treadmill sessions and one outdoor hike a week:
\* week 4 has treadmill workouts, weeks 5 and 6 have three Outdoor long hikes
C19_Witness ==
    /\ Returned
    /\ Len(returned.weeks) = 6
    /\ inputs.constraints.treadmill_sessions_per_week = 2
    /\ inputs.constraints.outdoor_hikes_per_week = 1
    /\ CountOfTypes(returned.weeks[4], TreadmillTypes) = 2
    /\ CountOfTypes(returned.weeks[5], {"Outdoor long hike"}) = 3
    /\ CountOfTypes(returned.weeks[6], {"Outdoor long hike"}) = 3

\* C20: _place_workouts tries the slots in the order even indices ascending, then
\* odd indices ascending.  A workout goes to the first open slot, in that order,
\* that has no neighbour of a type to avoid; when no open slot is without such a
\* neighbour it goes to the first open slot in that order; it is dropped only
\* when no slot is open; and an occupied slot keeps what it holds.
TriedBefore(i, j) == (i % 2 = 0 /\ j % 2 = 1) \/ (i % 2 = j % 2 /\ i < j)
OpenSlots == {i \in 1..Len(slot_list) : slot_list[i] = None}
AvoidNeighbour(i) ==
    \/ i > 1 /\ slot_list[i - 1] # None /\ slot_list[i - 1] \in avoided
    \/ i < Len(slot_list) /\ slot_list[i + 1] # None /\ slot_list[i + 1] \in avoided
ClearSlots == {i \in OpenSlots : ~AvoidNeighbour(i)}
FirstTried(candidates) ==
    CHOOSE i \in candidates : \A j \in candidates \ {i} : TriedBefore(i - 1, j - 1)
C20_PlacementStep ==
    pc = "placing" /\ to_place # <<>> /\ to_place' = Tail(to_place) =>
        /\ \A i \in 1..Len(slot_list) : slot_list[i] # None => slot_list'[i] = slot_list[i]
        /\ Len(slot_list') = Len(slot_list)
        /\ IF ClearSlots # {}
           THEN slot_list' = [slot_list EXCEPT ![FirstTried(ClearSlots)] = Head(to_place)]
           ELSE IF OpenSlots # {}
           THEN slot_list' = [slot_list EXCEPT ![FirstTried(OpenSlots)] = Head(to_place)]
           ELSE slot_list' = slot_list
C20_PlacementOrder == [][C20_PlacementStep]_vars
\* the call in progress has put two workouts of a type to avoid side by side, every
\* slot is taken, and a workout is still to be placed
C20_Witness ==
    /\ pc = "placing"
    /\ avoided = {"Outdoor long hike", "Treadmill intervals"}
    /\ \E i \in 1..(Len(slot_list) - 1) : slot_list[i] \in avoided /\ slot_list[i + 1] \in avoided
    /\ to_place # <<>>
    /\ OpenSlots = {}

\* C21: the pass of a week appends 'Cardio + strength sessions cannot exceed
\* training days.' exactly once when the requested treadmill, outdoor and
\* separate-day strength sessions do not fit the training days (so that a
\* reconciled count differs from the requested one), and does not append it when
\* they fit and reconciliation changes nothing.
RequestedSessionsFit ==
    /\ inputs.constraints.treadmill_sessions_per_week >= 0
    /\ inputs.constraints.outdoor_hikes_per_week >= 0
    /\ inputs.strength_sessions_per_week >= 0
    /\ inputs.constraints.treadmill_sessions_per_week
       + inputs.constraints.outdoor_hikes_per_week
       + EffectiveStrength(IF inputs.include_strength
                           THEN inputs.strength_sessions_per_week ELSE 0,
                           inputs.strength_on_cardio_days)
       <= IMax(inputs.days_per_week, 0)
C21_WeekStep ==
    pc = "loop" /\ pc' = "loop" =>
        /\ Len(warnings') >= Len(warnings)
        /\ SubSeq(warnings', 1, Len(warnings)) = warnings
        /\ Occurrences(SubSeq(warnings', Len(warnings) + 1, Len(warnings')),
                       SessionsExceedDays)
           = IF RequestedSessionsFit THEN 0 ELSE 1
C21_SessionsWarningOncePerWeek == [][C21_WeekStep]_vars
\* two training days with two strength sessions on days of their own and a
\* treadmill session: four weeks returned, the warning four times
C21_Witness ==
    /\ pc = "done"
    /\ inputs.days_per_week = 2
    /\ ~inputs.strength_on_cardio_days
    /\ inputs.strength_sessions_per_week = 2
    /\ Len(returned.weeks) = 4
    /\ Occurrences(returned.warnings, SessionsExceedDays) = 4

\* C22: for 1 <= daysPerWeek <= 7, a week whose pass issues no 'not enough
\* preferred days' warning has exactly daysPerWeek distinct dates, all from
\* weekStart to weekEnd; in any-days mode they are weekStart + i * (7 div
\* daysPerWeek) for i = 0..daysPerWeek-1, and in preferred-days mode the dates the
\* scheduler matches with a preferred day, in date order and at most daysPerWeek
\* of them, followed by the earliest other dates of the week up to daysPerWeek.
UnmatchedDates(ix) ==
    FilterSeq(WeekDatesOf(ix), 1,
              {d \in (plan.start_date + 7 * ix)..(plan.start_date + 7 * ix + 6) :
                  ~InSeq(ScheduleWeekday(d), inputs.preferred_days)})
ToppedUp(matched, others, n) ==
    Prefix(matched, n) \o Prefix(others, n - IMin(n, Len(matched)))
C22_WeekStep ==
    /\ pc = "loop" /\ pc' = "loop"
    /\ inputs.days_per_week \in 1..7
    /\ ~InSeq(NotEnoughPreferredDays, SubSeq(warnings', Len(warnings) + 1, Len(warnings')))
    => LET dates == DatesOfWeek(weeks'[Len(weeks')])
           week_start == plan.start_date + 7 * week_index
       IN  /\ Len(dates) = inputs.days_per_week
           /\ \A i, j \in 1..Len(dates) : i # j => dates[i] # dates[j]
           /\ \A i \in 1..Len(dates) :
                  /\ dates[i].fmt = "YYYY-MM-DD"
                  /\ dates[i].day \in week_start..(week_start + 6)
           /\ IF PreferredMode
              THEN \A i \in 1..Len(dates) :
                       dates[i].day = ToppedUp(OfferedPreferredDates(week_index),
                                               UnmatchedDates(week_index),
                                               inputs.days_per_week)[i]
              ELSE \A i \in 1..Len(dates) :
                       dates[i].day = week_start + (i - 1) * (7 \div inputs.days_per_week)
C22_ScheduledDates == [][C22_WeekStep]_vars
\* a returned plan of five days a week whose first week holds three matched dates
\* and two others
C22_Witness ==
    /\ pc = "done"
    /\ PreferredMode
    /\ inputs.days_per_week = 5
    /\ Len(SafePreferred(inputs.preferred_days)) = 3
    /\ Len(returned.weeks[1].days) = 5
    /\ ~InSeq(NotEnoughPreferredDays, returned.warnings)

\* C23: for a profile of at least two points, maxSustainedGradePercent is the
\* larger of the simple average grade and the largest mean of three consecutive
\* per-pair grades; shorter windows at the end of the profile do not count.
PairGrades(points) ==
    [idx \in 1..(Len(points) - 1) |->
        GradePercent(RSub(points[idx + 1].elevation_ft, points[idx].elevation_ft),
                     RMax(RSub(points[idx + 1].distance_miles, points[idx].distance_miles),
                          Q(1, 100)))]
FullWindowMeans(grades) ==
    [i \in 1..IMax(Len(grades) - 2, 0) |-> RDiv(RSumRange(grades, i, i + 2), R(3))]
SustainedOverFullWindows(grades) ==
    RSeqMax(FullWindowMeans(grades), RDiv(RSum(grades), R(Len(grades))))
C23_MaxSustainedOverFullWindows ==
    pc \in {"loop", "done"} /\ Len(inputs.hike.profile_points) >= 2 =>
        plan.hike_demands.max_sustained_grade_pct
            = SustainedOverFullWindows(PairGrades(inputs.hike.profile_points))

\* C24: in a plan of several weeks, every build week (not the final week, not a
\* multiple of 4) gets a volume that before rounding lies between 105% and 110%
\* of lastBuild, the previous build week's volume or the seed: the week's volume
\* is then within one minute of that band.
BuildWeeksBefore(k) == {j \in 1..(k - 1) : ~IsDeloadWeek(j)}
LastBuildBefore(k) ==
    IF BuildWeeksBefore(k) = {} THEN VolumeSeed(vol_in.baseline_minutes)
    ELSE volumes[CHOOSE j \in BuildWeeksBefore(k) : \A i \in BuildWeeksBefore(k) : i <= j]
C24_BuildWeekInGrowthBand ==
    pc = "volumes_done" /\ vol_in.total_weeks >= 2 =>
        \A k \in 1..(vol_in.total_weeks - 1) :
            ~IsDeloadWeek(k) =>
                /\ 100 * (volumes[k] + 1) >= 105 * LastBuildBefore(k)
                /\ 100 * (volumes[k] - 1) <= 110 * LastBuildBefore(k)

\* C25: every segment of every treadmill-based workout of the returned plan has
\* minutes >= 0, the last body segment included.
SegmentMinutesNonNegative(workout) ==
    workout.type \in TreadmillTypes /\ HasSegments(workout) =>
        \A i \in 1..Len(workout.segments) : RGe(workout.segments[i].minutes, R(0))
C25_SegmentMinutesNonNegative == Returned => EveryWorkout(SegmentMinutesNonNegative)

\* C26: when targetDate >= startDate, every day of the returned plan has a date
\* from the training-start date to the target date inclusive.
C26_NoDayAfterTarget ==
    Returned /\ inputs.target_date.day >= inputs.training_start_date.day =>
        \A w \in 1..Len(returned.weeks) :
            \A d \in 1..Len(returned.weeks[w].days) :
                /\ returned.weeks[w].days[d].date.day >= inputs.training_start_date.day
                /\ returned.weeks[w].days[d].date.day <= inputs.target_date.day

\* C27: within every week of the returned plan the dates of the days are strictly
\* increasing, in any-days mode and in preferred-days mode, top-up included.
C27_WeekDatesIncreasing ==
    Returned =>
        \A w \in 1..Len(returned.weeks) :
            \A d \in 1..(Len(returned.weeks[w].days) - 1) :
                returned.weeks[w].days[d].date.day < returned.weeks[w].days[d + 1].date.day

\* C28: with strength on cardio days, the number of strength add-ons attached in
\* a week of the returned plan is at most the reconciled strength sessions per
\* week, for every daysPerWeek.
ReconciledStrength ==
    _enforce_session_invariant(inputs.days_per_week,
        inputs.constraints.treadmill_sessions_per_week,
        inputs.constraints.outdoor_hikes_per_week,
        IF inputs.include_strength THEN inputs.strength_sessions_per_week ELSE 0,
        inputs.strength_on_cardio_days).strength_sessions_per_week
AddonCount(week) ==
    Cardinality({p \in WorkoutsOf(week) :
                    IsStrengthAddon(week.days[p[1]].workouts[p[2]], week.days[p[1]].date)})
C28_AddonsWithinStrengthSessions ==
    Returned /\ inputs.strength_on_cardio_days =>
        \A w \in 1..Len(returned.weeks) : AddonCount(returned.weeks[w]) <= ReconciledStrength

\* C29: no two workouts of the returned plan, over all days and weeks, strength
\* add-ons included, have the same id.
PlanWorkouts ==
    UNION {{<<w, p[1], p[2]>> : p \in WorkoutsOf(returned.weeks[w])} :
              w \in 1..Len(returned.weeks)}
IdAt(t) == returned.weeks[t[1]].days[t[2]].workouts[t[3]].id
C29_WorkoutIdsUnique ==
    Returned => \A a, b \in PlanWorkouts : a # b => IdAt(a) # IdAt(b)

\* C30: in a returned plan of at least 2 weeks, the final week's totalMinutes is
\* not greater than the largest totalMinutes of the earlier weeks.
C30_TaperTotalNotAboveEarlierWeeks ==
    Returned /\ Len(returned.weeks) >= 2 =>
        \E w \in 1..(Len(returned.weeks) - 1) :
            RLe(returned.weeks[Len(returned.weeks)].totalMinutes,
                returned.weeks[w].totalMinutes)

====
